---------------------------- MODULE Spec2Model ----------------------------
(***************************************************************************)
(* Model of the tool-orchestration core of the travel planner backend:     *)
(*   - MCPSessionPool  (app/services/mcp_pool.py)                          *)
(*   - MCPClient       (app/services/mcp_client.py)                        *)
(*   - generate        (app/services/planner.py), the agent loop           *)
(* The three parts have their own next-state relations (Next, ClientNext,  *)
(* GenNext) over one set of variables and one initial state.               *)
(***************************************************************************)
EXTENDS Integers, Sequences, FiniteSets, TLC

(***************************************************************************)
(* Bounds of the model.                                                    *)
(***************************************************************************)
\* max_size of the pool (10 in get_mcp_pool, scaled down).
MaxSize == 3
\* pool_size of the pool (5 in get_mcp_pool, scaled down; pool_size <= max_size).
PoolSize == 2
\* Cap on stats["total_requests"], the number of get_session calls.
MaxRequests == 4

\* Cap on MCPClient.rpc_id: no request is started once it is past this.
MaxRpcId == 3

\* The turn budget of generate's tool-use loop (max_turns = 10, scaled down).
MaxTurns == 2
\* Most tool_use blocks the model puts in one turn.
MaxTools == 2
\* Longest text block of a model answer, in characters.
MaxTextLen == 3
\* max_retries of chat_with_tools.
MaxRetries == 3

\* How far the clock of the cache runs, in hours.
MaxTime == 3
\* The size the cache is supposed never to exceed.
MaxEntries == 2
\* _default_ttl of CacheService, and the ttl generate gives its plans, in hours.
DefaultTtl == 1
PlanTtl == 2

\* More concurrent get_session callers than max_size.
Callers == 1..(MaxSize + 1)
WarmupTasks == 1..PoolSize

(***************************************************************************)
(* What the MCP server (or the transport) answers to one HTTP POST.        *)
(*   "result"          200, SSE frame whose JSON has a "result" member     *)
(*   "rpc_error"       200, SSE frame whose JSON has an "error" member     *)
(*   "http_error"      4xx/5xx: raise_for_status raises                    *)
(*   "transport_error" connection failure or timeout: post raises          *)
(*   "bad_body"        200, body without a parsable data: line             *)
(***************************************************************************)
Responses == {"result", "rpc_error", "http_error", "transport_error", "bad_body"}

VARIABLES
    \* ---- MCPSessionPool ----
    sessions,        \* self.sessions: the idle queue (asyncio.Queue(maxsize=max_size))
    initialized,     \* self.initialized
    total_created,   \* self.total_created
    stats,           \* self.stats
    lock_holder,     \* self._lock: the set holding the caller that owns it, {} if free
    lock_waiters,    \* self._lock: FIFO of callers suspended in acquire
    app_pc,          \* position of the lifespan coroutine (main.py)
    wtask,           \* warmup's gathered _create_session tasks
    cpc,             \* position of each get_session caller
    held,            \* the session each caller has checked out (local `session`)
    made,            \* history: clients returned by _create_session so far
    solo,            \* history: {c} while caller c's checkout ran with no other step between
    before,          \* history: qsize() when solo's checkout began
    \* ---- MCPClient (the process-wide instance of get_mcp_client) ----
    session_initialized,  \* self.session_initialized
    rpc_id,               \* self.rpc_id
    session_id,           \* self.session_id ("none" for None)
    sent,                 \* the requests POSTed so far, in issue order
    upc,                  \* position of each user of the client
    ulog,                 \* history: what each user's current/last call did
    \* ---- generate (one run of the agent loop) ----
    gpc,             \* position of the generate coroutine
    turn,            \* the loop variable `turn`
    messages,        \* the transcript `messages`
    tasks,           \* the execute_tool coroutines of the current turn
    ready,           \* the event loop's FIFO of coroutines ready to run
    model_calls,     \* history: chat_with_tools calls made so far
    outcome,         \* how the run ended: plan, fallback, or what raised
    stop_reason,     \* `stop_reason` of the last model response ("none" before)
    obj,             \* `obj`: the plan being built, once there is one
    enrich_in,       \* history: what the MCP calls of the last enrichment met
    enrichments,     \* history: calls of _enrich_with_mcp made by the run
    guard,           \* history: what _json_only_guard did with the final text
    attempt,         \* the loop variable `attempt` of the chat_with_tools call
                     \* in progress or that raised (0 otherwise)
    statuses,        \* history: how each POST of that call ended
    error_kind,      \* the exception chat_with_tools raised ("none": none)
    \* ---- normalize_to_contract (planner.py) ----
    npc,             \* how often the normalizer has been applied
    clock,           \* datetime.utcnow(), in ticks
    norm_in,         \* the decoded map given to normalize_to_contract
    norm_out,        \* what that call returned or raised
    norm_again,      \* what normalize_to_contract returned for norm_out's value
    \* ---- _normalize_to_schema (prompt_parser.py) ----
    ppc,             \* whether _normalize_to_schema has been applied
    dates_in,        \* the `dates` map of the parsed prompt
    dates_out,       \* out["dates"] afterwards
    \* ---- CacheService (cache_service.py), the process-wide instance ----
    cache,           \* self._cache: key -> (value, expiry)
    cnow,            \* datetime.now() as the cache reads it, in hours
    last_set,        \* history: the value of the last set() of each key
    klog,            \* history: the last get/set/clear and what it returned
    \* ---- generate and the plan cache (planner.py 918-931, 1127-1133) ----
    rpc,             \* position of a generate call with respect to the cache
    rlog,            \* history: the request of that call and what the call did
    \* ---- the tools schema cache (adapters.py 10-38, routers/plan.py 333-351) ----
    cached_mcp_tools,  \* `_cached_mcp_tools`: None, or the cached list
    tpc,             \* position of each caller of get_mcp_tools_schema
    tlog,            \* history: what the call of each caller did
    settled          \* history: the list of the first call that returned since
                     \* the last invalidation (None before)

poolVars == <<sessions, initialized, total_created, stats, lock_holder,
              lock_waiters, app_pc, wtask, cpc, held, made, solo, before>>

clientVars == <<session_initialized, rpc_id, session_id, sent, upc, ulog>>

\* The variables of chat_with_tools.
chatVars == <<attempt, statuses, error_kind>>

genVars == <<gpc, turn, messages, tasks, ready, model_calls, outcome,
             stop_reason, obj, enrich_in, enrichments, guard, chatVars>>

normVars == <<npc, clock, norm_in, norm_out, norm_again>>

parserVars == <<ppc, dates_in, dates_out>>

cacheVars == <<cache, cnow, last_set, klog>>

runVars == <<rpc, rlog>>
toolsVars == <<cached_mcp_tools, tpc, tlog, settled>>

vars == <<poolVars, clientVars, genVars, normVars, parserVars, cacheVars, runVars, toolsVars>>

\* What the actions of one part leave alone: the variables of the others.
notPool == <<clientVars, genVars, normVars, parserVars, cacheVars, runVars, toolsVars>>
notClient == <<poolVars, genVars, normVars, parserVars, cacheVars, runVars, toolsVars>>
notGen == <<poolVars, clientVars, normVars, parserVars, cacheVars, runVars, toolsVars>>
notNorm == <<poolVars, clientVars, genVars, parserVars, cacheVars, runVars, toolsVars>>
notParser == <<poolVars, clientVars, genVars, normVars, cacheVars, runVars, toolsVars>>
notCache == <<poolVars, clientVars, genVars, normVars, parserVars, runVars, toolsVars>>
notPlanCache == <<poolVars, clientVars, genVars, normVars, parserVars, toolsVars>>
notTools == <<poolVars, clientVars, genVars, normVars, parserVars, cacheVars, runVars>>

(***************************************************************************)
(* Decoded JSON values, as far as the normalizers look at them.  A number  *)
(* is the decimal n / 10^sc with no trailing zero in its fraction; a       *)
(* string is the sequence of its characters; `dict` is a map whose one key *)
(* "total" holds the string s.  Absent stands for a key the map lacks.    *)
(***************************************************************************)
Absent == [t |-> "absent", n |-> 0, sc |-> 0, s |-> <<>>]
None == [t |-> "none", n |-> 0, sc |-> 0, s |-> <<>>]
Num(n, sc) == [t |-> "num", n |-> n, sc |-> sc, s |-> <<>>]
Str(s) == [t |-> "str", n |-> 0, sc |-> 0, s |-> s]
TotalDict(s) == [t |-> "dict", n |-> 0, sc |-> 0, s |-> s]

\* dict.get(key)
Get(v) == IF v.t = "absent" THEN None ELSE v

\* Python truthiness, and `a or b`.
Truthy(v) ==
    CASE v.t \in {"absent", "none"} -> FALSE
      [] v.t = "num" -> v.n # 0
      [] v.t = "str" -> v.s # <<>>
      [] v.t = "dict" -> TRUE
Or(a, b) == IF Truthy(a) THEN a ELSE b

\* The value of a key that should hold a list: the key is absent, or holds
\* null, a single map ("dict"), a string, or a list; elems are the kinds of
\* the elements of a list.
NoList == [k |-> "absent", elems |-> <<>>]
NullList == [k |-> "none", elems |-> <<>>]
Single(kind) == [k |-> kind, elems |-> <<>>]
ListOf(elems) == [k |-> "list", elems |-> elems]

\* A plan map, reduced to the keys followed here.
NoPlan ==
    [from |-> Absent, originCity |-> Absent, generatedAtISO |-> Absent,
     outbound |-> [dict |-> FALSE, price |-> Absent, segments |-> <<>>],
     selected |-> [priceTotal |-> Absent, rating |-> Absent],
     flights_alternatives |-> NoList, lodging_alternatives |-> NoList,
     localPasses |-> NoList, intercity |-> NoList, weather |-> NoList,
     days |-> <<>>,
     pricing |-> [breakdown |-> FALSE, flights |-> Absent, confidence |-> Absent,
                  notes |-> NoList]]

TopLevelKeys ==
    {"query", "summary", "flights", "lodging", "transport", "weather", "days",
     "pricing", "metadata"}

NoNorm == [raised |-> FALSE, error |-> "none", keys |-> {}, value |-> NoPlan]

\* A date string "Y-M-D" (padded: with two-digit month and day), the empty
\* string, null, or no key at all.
NoDate == [kind |-> "absent", y |-> 0, m |-> 0, d |-> 0, padded |-> FALSE]
NoDates == [start_date |-> NoDate, duration |-> Absent, end_date |-> NoDate]

\* History record of a cache on which nothing was called yet; `turn` flips
\* with every call.
NoOp == [op |-> "none", key |-> 0, ret |-> 0, turn |-> 0]

\* History record of the plan cache before the first generate call.
NoRun == [req |-> 0, key |-> <<>>, outcome |-> "none", ret |-> 0,
          model_calls |-> 0, tool_calls |-> 0, before |-> <<>>]

\* Coroutines that call get_mcp_tools_schema: generate runs and endpoints.
ToolsCallers == {"g1", "g2"}

\* None as the value of an optional list, and a list as such a value.
NoTools == [none |-> TRUE, list |-> <<>>]
SomeTools(l) == [none |-> FALSE, list |-> l]

\* History record of a caller that is not inside get_mcp_tools_schema.
NoToolsCall == [later |-> FALSE, sent |-> FALSE, ret |-> NoTools]

\* Two coroutines using the process-wide MCPClient concurrently.
Users == {"u1", "u2"}

NoSession == [session_initialized |-> FALSE, none |-> TRUE]
Client(init) == [session_initialized |-> init, none |-> FALSE]

InitializeOutcome_NoCatch(resp) ==
    CASE resp = "result"          -> [ret |-> "true",  sets_initialized |-> TRUE,  reads_header |-> TRUE]
      [] resp = "rpc_error"       -> [ret |-> "false", sets_initialized |-> FALSE, reads_header |-> TRUE]
      [] resp = "http_error"      -> [ret |-> "raise", sets_initialized |-> FALSE, reads_header |-> FALSE]
      [] resp = "transport_error" -> [ret |-> "raise", sets_initialized |-> FALSE, reads_header |-> FALSE]
      [] resp = "bad_body"        -> [ret |-> "false", sets_initialized |-> FALSE, reads_header |-> TRUE]

(***************************************************************************)
(* MCPClient.initialize after its POST (lines 101-142), by the server's    *)
(* answer: what it returns ("true", "false", or "raise" for an exception   *)
(* leaving it), whether it sets session_initialized, and whether it gets   *)
(* as far as reading the mcp-session-id response header (lines 113-118).   *)
(*   result:          lines 123-133, True after the notification           *)
(*   rpc_error:       lines 134-136, False                                 *)
(*   http_error:      raise_for_status raises, caught at 138-140, False    *)
(*   transport_error: post raises, caught at 138-140, False                *)
(*   bad_body:        _parse_sse_response gives {}, falls to line 142      *)
(***************************************************************************)
InitializeOutcome(resp) ==
    CASE resp = "result"          -> [ret |-> "true",  sets_initialized |-> TRUE,  reads_header |-> TRUE]
      [] resp = "rpc_error"       -> [ret |-> "false", sets_initialized |-> FALSE, reads_header |-> TRUE]
      [] resp = "http_error"      -> [ret |-> "false", sets_initialized |-> FALSE, reads_header |-> FALSE]
      [] resp = "transport_error" -> [ret |-> "false", sets_initialized |-> FALSE, reads_header |-> FALSE]
      [] resp = "bad_body"        -> [ret |-> "false", sets_initialized |-> FALSE, reads_header |-> TRUE]

\* `success = await client.initialize()` in _create_session, on a fresh client.
InitializeReturns(resp) == InitializeOutcome(resp).ret = "true"

\* A _create_session that counts the session before it knows that the
\* initialize went well.
CreateSession_CountsFailures(resp) ==
    IF InitializeReturns(resp)
    THEN [raised |-> FALSE, client |-> Client(TRUE), counted |-> 1]
    ELSE [raised |-> TRUE, client |-> NoSession, counted |-> 1]

(***************************************************************************)
(* MCPSessionPool._create_session, by the server's answer to initialize:   *)
(* the client it returns and the increment of total_created, or the        *)
(* exception it raises.                                                    *)
(***************************************************************************)
CreateSession(resp) ==
    IF InitializeReturns(resp)
    THEN [raised |-> FALSE, client |-> Client(TRUE), counted |-> 1]
    ELSE [raised |-> TRUE, client |-> NoSession, counted |-> 0]

\* warmup gathers its tasks with return_exceptions=True (line 57).
WarmupReturnExceptions == TRUE

\* asyncio.gather(*tasks, return_exceptions=...): with return_exceptions an
\* exception of a task is a result like any other; without, the gather raises.
GatherRaises(results, return_exceptions) ==
    ~return_exceptions /\ \E i \in DOMAIN results : results[i].raised

WarmupAdmits_All(r) == TRUE

\* warmup's admission test: isinstance(session, MCPClient) and session.session_initialized
WarmupAdmits(r) == ~r.raised /\ r.client.session_initialized

PutNowait_Drop(q, s) == q

\* Queue.put_nowait on the bounded idle queue: the queue afterwards (QueueFull
\* leaves it as it is, the finally block of get_session discards the session).
PutNowait(q, s) == IF Len(q) < MaxSize THEN Append(q, s) ELSE q

RECURSIVE AdmitAll(_, _)
AdmitAll(q, rs) ==
    IF rs = <<>> THEN q
    ELSE AdmitAll(IF WarmupAdmits(Head(rs)) THEN Append(q, Head(rs).client) ELSE q,
                  Tail(rs))

RECURSIVE CountAdmitted(_)
CountAdmitted(rs) ==
    IF rs = <<>> THEN 0
    ELSE (IF WarmupAdmits(Head(rs)) THEN 1 ELSE 0) + CountAdmitted(Tail(rs))

\* History bookkeeping: a step of caller c keeps c's uninterrupted checkout,
\* a step of anyone else (or a checkout that raises) ends it.
StepOf(c) ==
    /\ solo' = IF solo = {c} THEN solo ELSE {}
    /\ before' = IF solo = {c} THEN before ELSE 0
StepOfApp ==
    /\ solo' = {}
    /\ before' = 0

\* No final text has been parsed.
NoGuard == [called |-> FALSE, raised |-> FALSE, extracted |-> FALSE]

\* `obj` before generate has built one.
NoObj == [none |-> TRUE, outbound |-> "null", lodging |-> "default",
          weather |-> "empty", diags |-> <<>>]

\* No enrichment has run.
NoEnrichment == [flights |-> [resp |-> "none", data |-> "none"],
                 hotels |-> [resp |-> "none", data |-> "none"],
                 weather |-> [resp |-> "none", data |-> "none"]]

\* History record of a user that has called nothing yet.
NoCall == [op |-> "none", flag_at_call |-> FALSE, init_sent |-> FALSE,
           init_resp |-> "none", init_ret |-> "none",
           flag_before |-> FALSE, flag_after |-> FALSE,
           tool_sent |-> FALSE, resp |-> "none", server_keys |-> {},
           raised |-> FALSE, keys |-> {}, done |-> FALSE,
           prev_failed |-> FALSE]

Init ==
    /\ sessions = <<>>
    /\ initialized = FALSE
    /\ total_created = 0
    /\ stats = [total_requests |-> 0, cache_hits |-> 0, cache_misses |-> 0,
                active_sessions |-> 0]
    /\ lock_holder = {}
    /\ lock_waiters = <<>>
    /\ app_pc = "start"
    /\ wtask = [i \in WarmupTasks |-> [state |-> "new", result |-> CreateSession("bad_body")]]
    /\ cpc = [c \in Callers |-> "idle"]
    /\ held = [c \in Callers |-> NoSession]
    /\ made = 0
    /\ solo = {}
    /\ before = 0
    /\ session_initialized = FALSE
    /\ rpc_id = 1
    /\ session_id = "none"
    /\ sent = <<>>
    /\ upc = [u \in Users |-> "idle"]
    /\ ulog = [u \in Users |-> NoCall]
    /\ gpc = "start"
    /\ turn = 0
    /\ messages = <<>>
    /\ tasks = <<>>
    /\ ready = <<>>
    /\ model_calls = 0
    /\ outcome = "none"
    /\ stop_reason = "none"
    /\ obj = NoObj
    /\ enrich_in = NoEnrichment
    /\ enrichments = 0
    /\ guard = NoGuard
    /\ attempt = 0
    /\ statuses = <<>>
    /\ error_kind = "none"
    /\ npc = "idle"
    /\ clock = 1
    /\ norm_in = NoPlan
    /\ norm_out = NoNorm
    /\ norm_again = NoNorm
    /\ ppc = "idle"
    /\ dates_in = NoDates
    /\ dates_out = NoDates
    /\ cache = <<>>
    /\ cnow = 0
    /\ last_set = <<>>
    /\ klog = NoOp
    /\ rpc = "idle"
    /\ rlog = NoRun
    /\ cached_mcp_tools = NoTools
    /\ tpc = [c \in ToolsCallers |-> "idle"]
    /\ tlog = [c \in ToolsCallers |-> NoToolsCall]
    /\ settled = NoTools

(***************************************************************************)
(* lifespan startup: initialize_mcp_pool -> warmup. The tasks are created  *)
(* and gathered; each runs _create_session up to its await of initialize.  *)
(***************************************************************************)
WarmupStart ==
    /\ app_pc = "start"
    /\ ~initialized
    /\ wtask' = [i \in WarmupTasks |-> [wtask[i] EXCEPT !.state = "running"]]
    /\ app_pc' = "warming"
    /\ StepOfApp
    /\ UNCHANGED <<sessions, initialized, total_created, stats, lock_holder,
                   lock_waiters, cpc, held, made>>
    /\ UNCHANGED notPool

\* One gathered _create_session resumes with the answer to its initialize.
WarmupTaskDone(i, resp) ==
    /\ app_pc = "warming"
    /\ wtask[i].state = "running"
    /\ LET r == CreateSession(resp) IN
        /\ wtask' = [wtask EXCEPT ![i] = [state |-> "done", result |-> r]]
        /\ total_created' = total_created + r.counted
        /\ made' = made + (IF r.raised THEN 0 ELSE 1)
    /\ StepOfApp
    /\ UNCHANGED <<sessions, initialized, stats, lock_holder, lock_waiters,
                   app_pc, cpc, held>>
    /\ UNCHANGED notPool

\* The gather returns: the admitted sessions are put in the queue, then
\* initialized and total_created are set (lines 59-68).
WarmupFinish ==
    /\ app_pc = "warming"
    /\ \A i \in WarmupTasks : wtask[i].state = "done"
    /\ LET results == [i \in WarmupTasks |-> wtask[i].result] IN
        IF GatherRaises(results, WarmupReturnExceptions)
        THEN /\ app_pc' = "serving"
             /\ UNCHANGED <<sessions, initialized, total_created>>
        ELSE /\ Len(AdmitAll(sessions, results)) <= MaxSize
             /\ sessions' = AdmitAll(sessions, results)
             /\ initialized' = TRUE
             /\ total_created' = CountAdmitted(results)
             /\ app_pc' = "serving"
    /\ StepOfApp
    /\ UNCHANGED <<stats, lock_holder, lock_waiters, wtask, cpc, held, made>>
    /\ UNCHANGED notPool

\* A shutdown that takes one session from the queue and stops.
Drain_One(q) == IF q = <<>> THEN q ELSE Tail(q)

\* `while not self.sessions.empty(): self.sessions.get_nowait()` (lines
\* 154-159): the queue afterwards.
RECURSIVE Drain(_)
Drain(q) == IF q = <<>> THEN q ELSE Drain(Tail(q))

\* lifespan shutdown: pool.shutdown() drains the idle queue (lines 149-161).
Shutdown ==
    /\ app_pc = "serving"
    /\ sessions' = Drain(sessions)
    /\ initialized' = FALSE
    /\ app_pc' = "stopped"
    /\ StepOfApp
    /\ UNCHANGED <<total_created, stats, lock_holder, lock_waiters, wtask, cpc,
                   held, made>>
    /\ UNCHANGED notPool

(***************************************************************************)
(* get_session (lines 88-133), one action per stretch between awaits.      *)
(* Requests are served once the lifespan startup has returned.             *)
(***************************************************************************)
Bump(st, key) == [st EXCEPT ![key] = @ + 1]

LockFree_NoMutex == TRUE

\* asyncio.Lock.acquire without suspension: the lock is free and nobody waits
\* for it (a released lock goes to its first waiter).
LockFree == lock_holder = {} /\ lock_waiters = <<>>

\* Lines 112-120 once the lock is held by c: create under max_size, else wait.
UnderLock(c, st) ==
    IF total_created < MaxSize
    THEN /\ cpc' = [cpc EXCEPT ![c] = "creating"]
         /\ lock_holder' = {c}
         /\ stats' = st
         /\ UNCHANGED <<sessions, held>>
    ELSE IF sessions # <<>>
    THEN \* sessions.get() returns at once: the queue is not empty
         /\ held' = [held EXCEPT ![c] = Head(sessions)]
         /\ sessions' = Tail(sessions)
         /\ stats' = Bump(st, "active_sessions")
         /\ lock_holder' = {}
         /\ cpc' = [cpc EXCEPT ![c] = "holding"]
    ELSE /\ cpc' = [cpc EXCEPT ![c] = "waiting"]
         /\ lock_holder' = {c}
         /\ stats' = st
         /\ UNCHANGED <<sessions, held>>

\* Lines 97-111: count the request, try get_nowait, on QueueEmpty go for the lock.
GetSession(c) ==
    /\ app_pc \in {"serving", "stopped"}
    /\ cpc[c] = "idle"
    /\ stats.total_requests < MaxRequests
    /\ solo' = {c}
    /\ before' = Len(sessions)
    /\ LET st1 == Bump(stats, "total_requests") IN
       IF sessions # <<>>
       THEN /\ held' = [held EXCEPT ![c] = Head(sessions)]
            /\ sessions' = Tail(sessions)
            /\ stats' = Bump(Bump(st1, "cache_hits"), "active_sessions")
            /\ cpc' = [cpc EXCEPT ![c] = "holding"]
            /\ UNCHANGED <<lock_holder, lock_waiters>>
       ELSE LET st2 == Bump(st1, "cache_misses") IN
            IF LockFree
            THEN /\ UnderLock(c, st2)
                 /\ UNCHANGED lock_waiters
            ELSE /\ lock_waiters' = Append(lock_waiters, c)
                 /\ cpc' = [cpc EXCEPT ![c] = "lockwait"]
                 /\ stats' = st2
                 /\ UNCHANGED <<sessions, held, lock_holder>>
    /\ UNCHANGED <<initialized, total_created, app_pc, wtask, made>>
    /\ UNCHANGED notPool

\* A caller suspended in `async with self._lock` gets the lock (FIFO).
LockAcquired(c) ==
    /\ cpc[c] = "lockwait"
    /\ lock_holder = {}
    /\ lock_waiters # <<>> /\ Head(lock_waiters) = c
    /\ lock_waiters' = Tail(lock_waiters)
    /\ UnderLock(c, stats)
    /\ StepOf(c)
    /\ UNCHANGED <<initialized, total_created, app_pc, wtask, made>>
    /\ UNCHANGED notPool

\* Line 114 resumes: _create_session returns the client or raises; the lock
\* is released either way, and a raise leaves `session` None for the finally.
CreateDone(c, resp) ==
    /\ cpc[c] = "creating"
    /\ LET r == CreateSession(resp) IN
       /\ total_created' = total_created + r.counted
       /\ made' = made + (IF r.raised THEN 0 ELSE 1)
       /\ IF r.raised
          THEN /\ cpc' = [cpc EXCEPT ![c] = "idle"]
               /\ UNCHANGED <<held, stats>>
          ELSE /\ cpc' = [cpc EXCEPT ![c] = "holding"]
               /\ held' = [held EXCEPT ![c] = r.client]
               /\ stats' = Bump(stats, "active_sessions")
    /\ lock_holder' = {}
    /\ IF CreateSession(resp).raised THEN StepOfApp ELSE StepOf(c)
    /\ UNCHANGED <<sessions, initialized, lock_waiters, app_pc, wtask>>
    /\ UNCHANGED notPool

\* Line 119 resumes: sessions.get() returns once the queue holds a session.
WaitDone(c) ==
    /\ cpc[c] = "waiting"
    /\ sessions # <<>>
    /\ held' = [held EXCEPT ![c] = Head(sessions)]
    /\ sessions' = Tail(sessions)
    /\ stats' = Bump(stats, "active_sessions")
    /\ lock_holder' = {}
    /\ cpc' = [cpc EXCEPT ![c] = "holding"]
    /\ StepOf(c)
    /\ UNCHANGED <<initialized, total_created, lock_waiters, app_pc, wtask, made>>
    /\ UNCHANGED notPool

\* A release that is skipped when the caller's body raised.
FinallyRuns_OnlyOnSuccess(body_raised) == ~body_raised

\* `finally:` (line 124) runs whether the body of the `async with` returned
\* or raised; `if session:` holds for every client that was handed out.
FinallyRuns(body_raised) == TRUE

\* The finally block (lines 124-133), when the caller's body ends or raises.
Release(c, body_raised) ==
    /\ cpc[c] = "holding"
    /\ IF FinallyRuns(body_raised)
       THEN /\ sessions' = PutNowait(sessions, held[c])
            /\ stats' = [stats EXCEPT !.active_sessions = @ - 1]
       ELSE UNCHANGED <<sessions, stats>>
    /\ held' = [held EXCEPT ![c] = NoSession]
    /\ cpc' = [cpc EXCEPT ![c] = "idle"]
    /\ StepOf(c)
    /\ UNCHANGED <<initialized, total_created, lock_holder, lock_waiters,
                   app_pc, wtask, made>>
    /\ UNCHANGED notPool

Next ==
    \/ WarmupStart
    \/ \E i \in WarmupTasks, resp \in Responses : WarmupTaskDone(i, resp)
    \/ WarmupFinish
    \/ Shutdown
    \/ \E c \in Callers : GetSession(c)
    \/ \E c \in Callers : LockAcquired(c)
    \/ \E c \in Callers, resp \in Responses : CreateDone(c, resp)
    \/ \E c \in Callers : WaitDone(c)
    \/ \E c \in Callers, body_raised \in BOOLEAN : Release(c, body_raised)

Spec == Init /\ [][Next]_vars

\* The event loop runs every coroutine that can run: a step of the pool is
\* taken as long as one is possible.
PoolLive == Spec /\ WF_vars(Next)

(***************************************************************************)
(* MCPClient: the process-wide instance, used by concurrent coroutines.    *)
(* One action per stretch of a method between two awaits of an HTTP POST.  *)
(***************************************************************************)
\* What the mcp-session-id response header of an initialize answer holds.
SessionHeaders == {"none", "s1", "s2"}

\* Key sets of the `result` member a tools/call answer may carry: the server
\* decides what is in it.
ResultKeySets == {{"content"}, {"content", "isError"}, {"content", "error"}}

GetNextId_Reuse(r) == [id |-> r, next |-> r]

\* _get_next_id (lines 24-28): the id handed out and the counter afterwards.
GetNextId(r) == [id |-> r, next |-> r + 1]

\* A request whose headers leave out mcp-session-id.
Request_NoSessionHeader(method, id, sid, flag) ==
    [method |-> method, id |-> id, sid |-> "none", initialized |-> flag]

\* The request as POSTed: its method, JSON-RPC id (0: a notification, which
\* has none), the mcp-session-id header of _get_headers, and, as history,
\* session_initialized at the time of the POST.
Request(method, id, sid, flag) ==
    [method |-> method, id |-> id, sid |-> sid, initialized |-> flag]

LazyInitProceeds_Always(ret) == TRUE

\* `if not await self.initialize(): return ...` in list_tools and call_tool
\* (lines 167-170, 213-216): go on to the request only when it returned True.
LazyInitProceeds(ret) == ret = "true"

CallToolReturn_Tagged(resp, keys) ==
    CASE resp = "result"          -> [raised |-> FALSE, keys |-> keys]
      [] resp = "rpc_error"       -> [raised |-> FALSE, keys |-> {"error", "tool"}]
      [] resp = "http_error"      -> [raised |-> TRUE,  keys |-> {}]
      [] resp = "transport_error" -> [raised |-> FALSE, keys |-> {"error"}]
      [] resp = "bad_body"        -> [raised |-> FALSE, keys |-> {"error"}]

(***************************************************************************)
(* call_tool after its POST (lines 228-250): the key set of the map it     *)
(* returns, by the server's answer.                                        *)
(*   result:          line 241, data["result"] as the server sent it       *)
(*   rpc_error:       line 244, {"error": data["error"]}                   *)
(*   http_error, transport_error: lines 246-248, {"error": str(e)}         *)
(*   bad_body:        line 250, {"error": "Unknown error"}                 *)
(***************************************************************************)
CallToolReturn(resp, keys) ==
    CASE resp = "result"          -> [raised |-> FALSE, keys |-> keys]
      [] resp = "rpc_error"       -> [raised |-> FALSE, keys |-> {"error"}]
      [] resp = "http_error"      -> [raised |-> FALSE, keys |-> {"error"}]
      [] resp = "transport_error" -> [raised |-> FALSE, keys |-> {"error"}]
      [] resp = "bad_body"        -> [raised |-> FALSE, keys |-> {"error"}]

\* call_tool when the lazy initialize failed (line 216).
CallToolNotInitialized == [raised |-> FALSE, keys |-> {"error"}]

\* list_tools after its POST (lines 179-206): the tools of a result, else [].
ListToolsReturn(resp) ==
    IF resp = "result" THEN [raised |-> FALSE, keys |-> {"tools"}]
    ELSE [raised |-> FALSE, keys |-> {}]

ToolMethod(op) == IF op = "list_tools" THEN "tools/list" ELSE "tools/call"

\* The payload of tools/list or tools/call is built and POSTed (lines 172-186,
\* 218-235) by user u, whose history record so far is lg.
SendToolRequest(u, lg, flag, sid) ==
    LET n == GetNextId(rpc_id) IN
    /\ rpc_id' = n.next
    /\ sent' = Append(sent, Request(ToolMethod(lg.op), n.id, sid, flag))
    /\ upc' = [upc EXCEPT ![u] = "tool_wait"]
    /\ ulog' = [ulog EXCEPT ![u] = [lg EXCEPT !.tool_sent = TRUE]]

\* A method returns to its caller.
Return(u, lg, r) ==
    /\ upc' = [upc EXCEPT ![u] = "idle"]
    /\ ulog' = [ulog EXCEPT ![u] =
                   [lg EXCEPT !.raised = r.raised, !.keys = r.keys, !.done = TRUE]]

\* What a method returns when initialize (called directly or lazily) has
\* returned ret without the method going on to its own request.
AfterInitialize(op, ret) ==
    IF ret = "raise" THEN [raised |-> TRUE, keys |-> {}]
    ELSE IF op = "initialize" THEN [raised |-> FALSE, keys |-> {ret}]
    ELSE IF op = "call_tool" THEN CallToolNotInitialized
    ELSE [raised |-> FALSE, keys |-> {}]

\* User u calls initialize, list_tools or call_tool. With the session
\* initialized, initialize returns True at once (lines 81-82) and the tool
\* methods POST their request; otherwise the initialize request is POSTed
\* (lines 84-110).
Call(u, op) ==
    /\ upc[u] = "idle"
    /\ rpc_id <= MaxRpcId
    /\ LET lg == [NoCall EXCEPT !.op = op, !.flag_at_call = session_initialized,
                                !.prev_failed = (ulog[u].init_ret = "false")] IN
       IF session_initialized
       THEN IF op = "initialize"
            THEN /\ Return(u, [lg EXCEPT !.init_ret = "true"],
                           AfterInitialize(op, "true"))
                 /\ UNCHANGED <<rpc_id, sent>>
            ELSE SendToolRequest(u, lg, session_initialized, session_id)
       ELSE LET n == GetNextId(rpc_id) IN
            /\ rpc_id' = n.next
            /\ sent' = Append(sent, Request("initialize", n.id, session_id,
                                            session_initialized))
            /\ upc' = [upc EXCEPT ![u] = "init_wait"]
            /\ ulog' = [ulog EXCEPT ![u] = [lg EXCEPT !.init_sent = TRUE]]
    /\ UNCHANGED <<session_initialized, session_id>>
    /\ UNCHANGED notClient

\* The answer to u's initialize POST arrives (lines 111-142). On a result the
\* notification is POSTed (line 132); otherwise initialize returns and the
\* calling method returns (or, for a tool method that goes on, POSTs).
InitResponse(u, resp, hdr) ==
    /\ upc[u] = "init_wait"
    /\ LET o == InitializeOutcome(resp)
           sid == IF o.reads_header /\ hdr # "none" THEN hdr ELSE session_id
           flag == session_initialized \/ o.sets_initialized
           lg == [ulog[u] EXCEPT !.init_resp = resp, !.init_ret = o.ret,
                                 !.flag_before = session_initialized,
                                 !.flag_after = flag]
       IN
       /\ session_id' = sid
       /\ session_initialized' = flag
       /\ IF resp = "result" /\ o.ret = "true"
          THEN /\ sent' = Append(sent, Request("notifications/initialized", 0, sid, flag))
               /\ upc' = [upc EXCEPT ![u] = "notify_wait"]
               /\ ulog' = [ulog EXCEPT ![u] = lg]
               /\ UNCHANGED rpc_id
          ELSE IF lg.op # "initialize" /\ o.ret # "raise" /\ LazyInitProceeds(o.ret)
          THEN SendToolRequest(u, lg, flag, sid)
          ELSE /\ Return(u, [lg EXCEPT !.resp = "init_failed"],
                         AfterInitialize(lg.op, o.ret))
               /\ UNCHANGED <<rpc_id, sent>>
    /\ UNCHANGED notClient

\* initialize if a failed POST of the notification left _send_initialized.
SendInitialized_Raising(ok) == IF ok THEN "true" ELSE "raise"

\* What initialize returns once _send_initialized (lines 144-160) is over:
\* the POST's failure is caught and logged, and line 133 returns True.
SendInitialized(ok) == "true"

\* The POST of notifications/initialized ends, well or not (lines 152-160: a
\* failure is logged); initialize returns True and the calling method goes on.
NotifyDone(u, ok) ==
    /\ upc[u] = "notify_wait"
    /\ IF ulog[u].op = "initialize"
       THEN /\ Return(u, ulog[u], AfterInitialize("initialize", SendInitialized(ok)))
            /\ UNCHANGED <<rpc_id, sent>>
       ELSE IF SendInitialized(ok) # "raise" /\ LazyInitProceeds(SendInitialized(ok))
       THEN SendToolRequest(u, ulog[u], session_initialized, session_id)
       ELSE /\ Return(u, [ulog[u] EXCEPT !.resp = "init_failed"],
                      AfterInitialize(ulog[u].op, SendInitialized(ok)))
            /\ UNCHANGED <<rpc_id, sent>>
    /\ UNCHANGED <<session_initialized, session_id>>
    /\ UNCHANGED notClient

\* The answer to u's tools/list or tools/call POST arrives.
ToolResponse(u, resp, keys) ==
    /\ upc[u] = "tool_wait"
    /\ LET lg == [ulog[u] EXCEPT !.resp = resp,
                                 !.server_keys = IF resp = "result" THEN keys ELSE {}]
       IN Return(u, lg, IF lg.op = "call_tool" THEN CallToolReturn(resp, keys)
                        ELSE ListToolsReturn(resp))
    /\ UNCHANGED <<session_initialized, rpc_id, session_id, sent>>
    /\ UNCHANGED notClient

ClientOps == {"initialize", "list_tools", "call_tool"}

ClientNext ==
    \/ \E u \in Users, op \in ClientOps : Call(u, op)
    \/ \E u \in Users, resp \in Responses, hdr \in SessionHeaders : InitResponse(u, resp, hdr)
    \/ \E u \in Users, ok \in BOOLEAN : NotifyDone(u, ok)
    \/ \E u \in Users, resp \in Responses, keys \in ResultKeySets : ToolResponse(u, resp, keys)

ClientSpec == Init /\ [][ClientNext]_vars

(***************************************************************************)
(* generate (planner.py lines 893-1225): one run of the agent loop on the  *)
(* asyncio event loop. The execute_tool coroutines of a turn are tasks; a  *)
(* task runs from one await of a POST to the next, and the loop runs the   *)
(* ready tasks in FIFO order, a task whose POST was answered going to the  *)
(* back of the queue.                                                      *)
(***************************************************************************)
\* What chat_with_tools gives back: a response by its stop_reason and content
\* (end_turn with a text block, end_turn without one; tool_use; another stop
\* reason such as max_tokens).
ModelResponses == {"end_turn_text", "end_turn_notext", "tool_use", "other_stop"}

StopReason(kind) ==
    CASE kind \in {"end_turn_text", "end_turn_notext"} -> "end_turn"
      [] kind = "tool_use" -> "tool_use"
      [] kind = "other_stop" -> "max_tokens"

\* The characters of a model's text: the two braces, and one character that
\* is neither a brace nor white space.
Chars == {"{", "}", "x"}

\* The texts of at most n characters.
Texts(n) == UNION {[1..m -> Chars] : m \in 0..n}

\* json.loads on such a text: it decodes the empty object and nothing else.
JsonLoads(text) == text = <<"{", "}">>

\* str.find and str.rfind, counting positions from 1, 0 for not found.
Find(text, c) ==
    IF \E i \in 1..Len(text) : text[i] = c
    THEN CHOOSE i \in 1..Len(text) : text[i] = c /\ \A j \in 1..(i - 1) : text[j] # c
    ELSE 0
RFind(text, c) ==
    IF \E i \in 1..Len(text) : text[i] = c
    THEN CHOOSE i \in 1..Len(text) : text[i] = c /\ \A j \in (i + 1)..Len(text) : text[j] # c
    ELSE 0

\* _json_only_guard (lines 38-54): whether it raises, and whether what it
\* returns came from the span between the first "{" and the last "}".
JsonOnlyGuard(text) ==
    IF text = <<>> THEN [raised |-> TRUE, extracted |-> FALSE]
    ELSE IF JsonLoads(text) THEN [raised |-> FALSE, extracted |-> FALSE]
    ELSE LET st == Find(text, "{")
             en == RFind(text, "}")
         IN IF st # 0 /\ en # 0
            THEN (IF JsonLoads(SubSeq(text, st, en))
                  THEN [raised |-> FALSE, extracted |-> TRUE]
                  ELSE [raised |-> TRUE, extracted |-> TRUE])
            ELSE [raised |-> TRUE, extracted |-> FALSE]

\* What the tools/call POST of a tool call can meet. The model is offered
\* tools only when list_tools returned some (line 1088), which it does only on
\* an initialized session, and session_initialized is never reset: call_tool
\* goes straight to its POST.
ToolResponses == Responses

\* The keys of the result of a tool that worked; execute_tool hands the
\* result on as it is (line 1186), whatever its keys.
ToolResultKeys == {"content"}

\* The id the model gives the j-th tool_use block of the turn.
ToolUseId(t, j) == <<t, j>>

\* The MCPClient that _mcp_call sends the tools/call on (adapters.py 75-77):
\* get_mcp_client() returns the process-wide instance of mcp_client.py
\* 253-261, "global"; a client taken from MCPSessionPool.get_session for the
\* call would be "leased".
GetMcpClient == "global"

\* adapters._mcp_call (lines 70-81): call_tool's return, an exception
\* becoming {"error": str(e)}.
McpCall(resp, keys) ==
    LET r == CallToolReturn(resp, keys) IN
    IF r.raised THEN [raised |-> FALSE, keys |-> {"error"}] ELSE r

\* _execute_mcp_tool (lines 1228-1254): (data, diag); an exception becomes
\* ({}, diag with ok False).
ExecuteMcpTool(resp, keys) ==
    LET r == McpCall(resp, keys) IN
    IF r.raised THEN [raised |-> FALSE, keys |-> {}, ok |-> FALSE]
    ELSE [raised |-> FALSE, keys |-> r.keys, ok |-> TRUE]

ExecuteTool_RaiseOnError(id, resp, keys) ==
    LET r == ExecuteMcpTool(resp, keys) IN
    [raised |-> "error" \in r.keys, tool_use_id |-> id, failed |-> resp # "result",
     error |-> "error" \in r.keys]

\* execute_tool (lines 1163-1198): the tool_result block for the call with
\* tool_use id `id`. `failed`: the call met a failure; `error`: the content
\* handed back to the model has an error key. Its except branch turns an
\* exception into a tool_result with {"error": str(e)}.
ExecuteTool(id, resp, keys) ==
    LET r == ExecuteMcpTool(resp, keys) IN
    IF r.raised
    THEN [raised |-> FALSE, tool_use_id |-> id, failed |-> TRUE, error |-> TRUE]
    ELSE [raised |-> FALSE, tool_use_id |-> id, failed |-> resp # "result",
          error |-> "error" \in r.keys]

ToolFanOut_Sequential(k) ==
    [first |-> IF k > 0 THEN <<1>> ELSE <<>>, chain |-> TRUE]

\* asyncio.gather(*[execute_tool(block) for block in tool_blocks]) (line
\* 1201): every coroutine becomes a task scheduled at once, in order; none
\* waits for another (`chain`: a finished task starts the next one).
ToolFanOut(k) == [first |-> [j \in 1..k |-> j], chain |-> FALSE]

ToolResults_OnlySucceeded(ts) ==
    LET RECURSIVE Pick(_)
        Pick(q) == IF q = <<>> THEN <<>>
                   ELSE (IF Head(q).result.failed THEN <<>>
                         ELSE <<[tool_use_id |-> Head(q).result.tool_use_id,
                                 failed |-> Head(q).result.failed,
                                 error |-> Head(q).result.error]>>) \o Pick(Tail(q))
    IN Pick(ts)

\* tool_results as gather returns it: one block per task, in task order.
ToolResults(ts) ==
    [j \in 1..Len(ts) |-> [tool_use_id |-> ts[j].result.tool_use_id,
                           failed |-> ts[j].result.failed,
                           error |-> ts[j].result.error]]

NoResult == [raised |-> FALSE, tool_use_id |-> <<>>, failed |-> FALSE, error |-> FALSE]

\* Tool results appended under the role of the model.
UserTurn_AsAssistant(results) ==
    [role |-> "assistant", ids |-> [j \in 1..Len(results) |-> results[j].tool_use_id],
     results |-> results]

UserTurn(results) == [role |-> "user", ids |-> [j \in 1..Len(results) |-> results[j].tool_use_id],
                      results |-> results]
AssistantTurn(ids) == [role |-> "assistant", ids |-> ids, results |-> <<>>]

(***************************************************************************)
(* The plan object, as far as the enrichment pass reads and writes it:     *)
(*   outbound  flights.outbound: "null", or where it came from             *)
(*   lodging   lodging.selected: where it came from ("default": the dict   *)
(*             of empty fields coerce_hotel makes of an absent hotel)      *)
(*   weather   weather: "empty" for [], or where it came from              *)
(*   diags     metadata.toolDiagnostics                                    *)
(***************************************************************************)
\* What the object decoded from the model's final text can hold: an outbound
\* flight or none, tool diagnostics or none (with a hotel and a weather list).
Answers == [outbound : {"answer", "null"}, lodging : {"answer"}, weather : {"answer"},
            diags : {<<>>, <<[tool |-> "flights.search", ok |-> TRUE]>>}]

\* The object decoded from "{}".
EmptyAnswer == [outbound |-> "null", lodging |-> "default", weather |-> "empty",
                diags |-> <<>>]

\* normalize_to_contract on it: flights.outbound a dict or None (lines
\* 151-155), lodging.selected always a dict (lines 213-216), weather a list
\* (lines 226-241), toolDiagnostics kept (line 429).
NormalizedAnswer(answer) ==
    [none |-> FALSE, outbound |-> answer.outbound, lodging |-> answer.lodging,
     weather |-> answer.weather, diags |-> answer.diags]

\* The object of line 1215, normalized (line 1216).
FallbackObj == [none |-> FALSE, outbound |-> "null", lodging |-> "default",
                weather |-> "empty", diags |-> <<>>]

\* Lines 1122-1123: `if not tool_diags or len(tool_diags) == 0`.
NeedsEnrichment(o) == o.diags = <<>>

\* What a search of the enrichment pass can find in a result the server sent.
FlightData == {"departures", "returns_only", "no_flights"}
HotelData == {"options", "no_options"}
WeatherData == {"days", "no_days"}

\* What the tools/call POST of one search met (an answer, or a timeout: every
\* failure gives the adapter the same error map), and the data of a result.
McpAnswers(D) == [resp : {"result"}, data : D]
                     \cup {[resp |-> "transport_error", data |-> "none"]}

\* The data an adapter gets from _mcp_call: the result the server sent, or the
\* {"error": ...} map call_tool and _mcp_call make of every failure.
AdapterData(a) ==
    IF "error" \in McpCall(a.resp, ToolResultKeys).keys THEN "error" ELSE a.data

\* The diagnostic of flights_search, hotels_search, weather_forecast
\* (adapters.py lines 127-141, 144-158, 195-206): ok is False only when
\* _mcp_call raises.
AdapterDiag(tool, a) ==
    [tool |-> tool, ok |-> ~McpCall(a.resp, ToolResultKeys).raised]

\* _map_mcp_flights (lines 465-523): None without flights, else a dict whose
\* outbound is None when there is no departure.
MapMcpFlights(data) ==
    CASE data = "departures"   -> [none |-> FALSE, outbound |-> "mcp"]
      [] data = "returns_only" -> [none |-> FALSE, outbound |-> "null"]
      [] OTHER                 -> [none |-> TRUE,  outbound |-> "null"]

\* _map_mcp_hotels (lines 526-592): None without options.
MapMcpHotels(data) == IF data = "options" THEN "mcp" ELSE "none"

\* _map_mcp_weather (lines 595-610): [] without days.
MapMcpWeather(data) == IF data = "days" THEN "mcp" ELSE "empty"

\* _enrich_with_mcp from its three searches on (lines 803-890), on plan o:
\* whether it raises, and the plan it returns. fetch_flights gives the
\* mapped flights `or plan.get("flights")`, the normalized dict, which is
\* never falsy; line 871 then reads .get('outbound', {}).get(...), which
\* raises AttributeError on an outbound of None.
EnrichWithMcp(o, f, h, w) ==
    LET fm == MapMcpFlights(AdapterData(f))
        flights_mapped == IF fm.none THEN o.outbound ELSE fm.outbound
        hm == MapMcpHotels(AdapterData(h))
        wm == MapMcpWeather(AdapterData(w))
        diagnostics == <<AdapterDiag("flights.search", f),
                         AdapterDiag("hotels.search", h),
                         AdapterDiag("weather.forecast", w)>>
    IN IF flights_mapped = "null"
       THEN [raised |-> TRUE, plan |-> o]
       ELSE [raised |-> FALSE,
             plan |-> [none |-> FALSE,
                       outbound |-> flights_mapped,
                       lodging |-> IF hm = "none" THEN o.lodging ELSE hm,
                       weather |-> IF wm = "empty" THEN o.weather ELSE wm,
                       diags |-> o.diags \o diagnostics]]

LoopHead_NoBudget(t) ==
    /\ gpc' = "model_wait"
    /\ model_calls' = model_calls + 1
    /\ attempt' = 0
    /\ statuses' = <<>>
    /\ UNCHANGED <<enrichments, error_kind>>

\* The next iteration of `for turn in range(max_turns)` calls the model
\* (line 1098); with the budget used up the loop ends and the fallback
\* (lines 1213-1221) calls _enrich_with_mcp. chat_with_tools runs down to
\* the POST of its first attempt (anthropic_client.py lines 23-46).
LoopHead(t) ==
    IF t < MaxTurns
    THEN /\ gpc' = "model_wait"
         /\ model_calls' = model_calls + 1
         /\ attempt' = 0
         /\ statuses' = <<>>
         /\ UNCHANGED <<enrichments, error_kind>>
    ELSE /\ gpc' = "fallback_enrich"
         /\ enrichments' = enrichments + 1
         /\ UNCHANGED <<model_calls, chatVars>>

\* Line 1087 and the first iteration up to the await of chat_with_tools.
GenStart ==
    /\ gpc = "start"
    /\ messages' = <<UserTurn(<<>>)>>
    /\ LoopHead(turn)
    /\ UNCHANGED <<turn, tasks, ready, outcome, stop_reason, obj, enrich_in, guard>>
    /\ UNCHANGED notGen

ChatStep_RetryAll(n, status) ==
    CASE status = "ok" -> [next |-> "return", error |-> "none"]
      [] status = "bad_body" -> [next |-> "raise", error |-> "JSONDecodeError"]
      [] status \in {"rate_limited", "http_error", "transport_error"} ->
            IF n < MaxRetries - 1
            THEN [next |-> "retry", error |-> "none"]
            ELSE [next |-> "raise", error |-> "RateLimitError"]

\* chat_with_tools if retry exhaustion re-raised the last HTTP error
\* (`raise last_error`, line 83) in place of RateLimitError.
ChatStep_RaiseLastError(n, status) ==
    CASE status = "ok" -> [next |-> "return", error |-> "none"]
      [] status = "bad_body" -> [next |-> "raise", error |-> "JSONDecodeError"]
      [] status = "rate_limited" ->
            IF n < MaxRetries - 1
            THEN [next |-> "retry", error |-> "none"]
            ELSE [next |-> "raise", error |-> "HTTPStatusError"]
      [] status = "http_error" -> [next |-> "raise", error |-> "HTTPStatusError"]
      [] status = "transport_error" -> [next |-> "raise", error |-> "TransportError"]

(***************************************************************************)
(* chat_with_tools (anthropic_client.py lines 43-79) once the POST of      *)
(* attempt n has ended with `status`: it returns the response, sleeps and  *)
(* goes to the next attempt, or raises.                                    *)
(*   ok:              200 with a JSON body, line 48                        *)
(*   bad_body:        200 whose body is no JSON: resp.json() raises, 77-79 *)
(*   rate_limited:    429, lines 51-71                                     *)
(*   http_error:      another 4xx/5xx, lines 72-75                         *)
(*   transport_error: the POST raises (connection, timeout), lines 77-79   *)
(***************************************************************************)
ChatStep(n, status) ==
    CASE status = "ok" -> [next |-> "return", error |-> "none"]
      [] status = "bad_body" -> [next |-> "raise", error |-> "JSONDecodeError"]
      [] status = "rate_limited" ->
            IF n < MaxRetries - 1
            THEN [next |-> "retry", error |-> "none"]
            ELSE [next |-> "raise", error |-> "RateLimitError"]
      [] status = "http_error" -> [next |-> "raise", error |-> "HTTPStatusError"]
      [] status = "transport_error" -> [next |-> "raise", error |-> "TransportError"]

\* chat_with_tools returns the response of a POST that went well (its
\* locals are gone), and generate handles it (lines 1098-1211). k: the tool_use
\* blocks of a tool_use response; text, answer: the text block of an end_turn
\* response and what the object it encodes holds.
HandleResponse(kind, k, text, answer) ==
    /\ stop_reason' = StopReason(kind)
    /\ ChatStep(attempt, "ok").next = "return"
    /\ attempt' = 0
    /\ statuses' = <<>>
    /\ UNCHANGED error_kind
    /\ CASE kind = "end_turn_text" ->
              \* Lines 1113-1124: parse, normalize (which keeps the answer's
              \* toolDiagnostics, line 429), and enrich when there are none.
              /\ guard' = [called |-> TRUE, raised |-> JsonOnlyGuard(text).raised,
                           extracted |-> JsonOnlyGuard(text).extracted]
              /\ IF JsonOnlyGuard(text).raised
                 THEN /\ gpc' = "done" /\ outcome' = "raised_parse"
                      /\ UNCHANGED <<turn, messages, tasks, ready, model_calls, obj,
                                     enrich_in, enrichments>>
                 ELSE /\ obj' = NormalizedAnswer(answer)
                      /\ IF NeedsEnrichment(NormalizedAnswer(answer))
                         THEN gpc' = "enrich_wait" /\ enrichments' = enrichments + 1
                         ELSE gpc' = "validate" /\ UNCHANGED enrichments
                      /\ UNCHANGED <<turn, messages, tasks, ready, model_calls, outcome,
                                     enrich_in>>
         [] kind \in {"end_turn_notext", "other_stop"} ->
              \* `break` (lines 1141, 1211), then lines 1213-1221.
              /\ gpc' = "fallback_enrich"
              /\ enrichments' = enrichments + 1
              /\ UNCHANGED <<turn, messages, tasks, ready, model_calls, outcome, obj,
                             enrich_in, guard>>
         [] kind = "tool_use" ->
              /\ messages' = Append(messages,
                                    AssistantTurn([j \in 1..k |-> ToolUseId(turn, j)]))
              /\ tasks' = [j \in 1..k |-> [state |-> "pending", client |-> "none",
                                               result |-> NoResult]]
              /\ ready' = ToolFanOut(k).first
              /\ gpc' = "tools"
              /\ UNCHANGED <<turn, model_calls, outcome, obj, enrich_in, enrichments, guard>>
    /\ UNCHANGED notGen

\* How a POST to the Messages API can end other than with a usable response.
ChatFailures == {"rate_limited", "http_error", "transport_error", "bad_body"}

\* The POST of the current attempt failed: chat_with_tools sleeps before the
\* next attempt, or raises, and generate re-raises (lines 1100-1102).
ChatFailed(status) ==
    /\ gpc = "model_wait"
    /\ statuses' = Append(statuses, status)
    /\ IF ChatStep(attempt, status).next = "retry"
       THEN /\ gpc' = "backoff"
            /\ UNCHANGED <<outcome, error_kind>>
       ELSE /\ gpc' = "done"
            /\ outcome' = "raised_model"
            /\ error_kind' = ChatStep(attempt, status).error
    /\ UNCHANGED <<turn, messages, tasks, ready, model_calls, stop_reason, obj,
                   enrich_in, enrichments, guard, attempt>>
    /\ UNCHANGED notGen

\* asyncio.sleep(delay) returns (line 66) and the next attempt POSTs.
BackoffDone ==
    /\ gpc = "backoff"
    /\ gpc' = "model_wait"
    /\ attempt' = attempt + 1
    /\ UNCHANGED <<turn, messages, tasks, ready, model_calls, outcome, stop_reason,
                   obj, enrich_in, enrichments, guard, statuses, error_kind>>
    /\ UNCHANGED notGen

\* The event loop runs the task at the head of the ready queue: a new task
\* runs execute_tool down to the POST of call_tool and is suspended there; a
\* task whose POST was answered runs to its return.
RunTask(j) ==
    /\ gpc = "tools"
    /\ ready # <<>> /\ Head(ready) = j
    /\ IF tasks[j].state = "pending"
       THEN /\ tasks' = [tasks EXCEPT ![j].state = "in_flight",
                                       ![j].client = GetMcpClient]
            /\ ready' = Tail(ready)
       ELSE /\ tasks' = [tasks EXCEPT ![j].state = "done"]
            /\ ready' = Tail(ready) \o
                   (IF ToolFanOut(Len(tasks)).chain /\ j < Len(tasks)
                    THEN <<j + 1>> ELSE <<>>)
    /\ UNCHANGED <<gpc, turn, messages, model_calls, outcome, stop_reason, obj, enrich_in, enrichments>>
    /\ UNCHANGED <<guard, chatVars>>
    /\ UNCHANGED notGen

\* The POST of task j is answered (or fails, or times out): the task is
\* ready again, behind whatever is already in the queue.
IOComplete(j, resp, keys) ==
    /\ gpc = "tools"
    /\ j \in DOMAIN tasks
    /\ tasks[j].state = "in_flight"
    /\ tasks' = [tasks EXCEPT ![j].state = "resumed",
                            ![j].result =
                                ExecuteTool(messages[Len(messages)].ids[j], resp, keys)]
    /\ ready' = Append(ready, j)
    /\ UNCHANGED <<gpc, turn, messages, model_calls, outcome, stop_reason, obj, enrich_in, enrichments>>
    /\ UNCHANGED <<guard, chatVars>>
    /\ UNCHANGED notGen

\* The gather returns (lines 1201-1208): an exception of a task leaves
\* generate; otherwise the results are appended and the loop goes on.
GatherDone ==
    /\ gpc = "tools"
    /\ \A j \in DOMAIN tasks : tasks[j].state = "done"
    /\ IF \E j \in DOMAIN tasks : tasks[j].result.raised
       THEN /\ gpc' = "done" /\ outcome' = "raised_tool"
            /\ UNCHANGED <<turn, messages, model_calls, enrichments, chatVars>>
       ELSE /\ messages' = Append(messages, UserTurn(ToolResults(tasks)))
            /\ turn' = turn + 1
            /\ LoopHead(turn + 1)
            /\ UNCHANGED outcome
    /\ tasks' = <<>>
    /\ ready' = <<>>
    /\ UNCHANGED <<stop_reason, obj, enrich_in, guard>>
    /\ UNCHANGED notGen

\* Line 1125 resumes: _enrich_with_mcp returns the enriched obj, or an
\* exception leaves it and is re-raised by generate (lines 1136-1139).
EnrichReturns(f, h, w) ==
    /\ enrich_in' = [flights |-> f, hotels |-> h, weather |-> w]
    /\ LET e == EnrichWithMcp(obj, f, h, w) IN
       IF e.raised
       THEN gpc' = "done" /\ outcome' = "raised_enrich" /\ UNCHANGED obj
       ELSE gpc' = "validate" /\ obj' = e.plan /\ UNCHANGED outcome
    /\ UNCHANGED <<turn, messages, tasks, ready, model_calls, stop_reason, enrichments>>
    /\ UNCHANGED <<guard, chatVars>>
    /\ UNCHANGED notGen

\* Lines 1127-1139: TripPlan.model_validate, the cache write and the return
\* of the plan, or the validation error re-raised.
Finish(valid) ==
    /\ gpc = "validate"
    /\ gpc' = "done"
    /\ outcome' = IF valid THEN "plan" ELSE "raised_validate"
    /\ UNCHANGED <<turn, messages, tasks, ready, model_calls, stop_reason, obj, enrich_in, enrichments>>
    /\ UNCHANGED <<guard, chatVars>>
    /\ UNCHANGED notGen

\* Lines 1213-1225: the fallback object is normalized and enriched; an
\* exception of the enrichment is logged and the object stays as it was; the
\* fallback plan is returned.
FallbackPlan(f, h, w) ==
    /\ enrich_in' = [flights |-> f, hotels |-> h, weather |-> w]
    /\ LET e == EnrichWithMcp(FallbackObj, f, h, w) IN
       obj' = IF e.raised THEN FallbackObj ELSE e.plan
    /\ gpc' = "done"
    /\ outcome' = "fallback"
    /\ UNCHANGED <<turn, messages, tasks, ready, model_calls, stop_reason, enrichments>>
    /\ UNCHANGED <<guard, chatVars>>
    /\ UNCHANGED notGen

\* The model call of the current turn ends.
ModelResponse ==
    /\ gpc = "model_wait"
    /\ \/ \E kind \in ModelResponses \ {"tool_use", "end_turn_text"} :
             HandleResponse(kind, 0, <<>>, EmptyAnswer)
       \/ \E k \in 0..MaxTools : HandleResponse("tool_use", k, <<>>, EmptyAnswer)
       \/ \E text \in Texts(MaxTextLen), answer \in Answers :
             HandleResponse("end_turn_text", 0, text, answer)

\* The enrichment pass of the final answer ends.
EnrichDone ==
    /\ gpc = "enrich_wait"
    /\ \E f \in McpAnswers(FlightData), h \in McpAnswers(HotelData),
          w \in McpAnswers(WeatherData) : EnrichReturns(f, h, w)

\* The enrichment pass of the fallback ends.
Fallback ==
    /\ gpc = "fallback_enrich"
    /\ \E f \in McpAnswers(FlightData), h \in McpAnswers(HotelData),
          w \in McpAnswers(WeatherData) : FallbackPlan(f, h, w)

GenNext ==
    \/ GenStart
    \/ ModelResponse
    \/ \E status \in ChatFailures : ChatFailed(status)
    \/ BackoffDone
    \/ \E j \in 1..MaxTools : RunTask(j)
    \/ \E j \in 1..MaxTools, resp \in ToolResponses : IOComplete(j, resp, ToolResultKeys)
    \/ GatherDone
    \/ EnrichDone
    \/ \E valid \in BOOLEAN : Finish(valid)
    \/ Fallback

GenSpec == Init /\ [][GenNext]_vars

\* Every await of the run returns: the HTTP calls have timeouts, and the event
\* loop runs whatever is ready.
GenLive == GenSpec /\ WF_vars(GenNext)

(***************************************************************************)
(* Claims on the session pool.                                             *)
(***************************************************************************)
WarmupFailures == Cardinality({i \in WarmupTasks : wtask[i].state = "done" /\ wtask[i].result.raised})

C2_Original_IdleUnchanged ==
    \A c \in Callers :
        (solo = {c} /\ cpc[c] = "idle") => Len(sessions) = before

\* C2 amended: a checkout immediately followed by its release leaves the idle
\* count unchanged when an idle session was available before the checkout;
\* when the idle queue was empty and the checkout created a session
\* (total_created < max_size), the idle count ends one higher than before.
C2_IdleUnchangedOnHit ==
    \A c \in Callers :
        (solo = {c} /\ cpc[c] = "idle") =>
            Len(sessions) = (IF before > 0 THEN before ELSE before + 1)

\* C2 witness: a hit checkout and its release have run back to back on a pool
\* that is at max_size, and the idle count is what it was.
C2_Witness ==
    \E c \in Callers :
        /\ solo = {c} /\ cpc[c] = "idle"
        /\ before > 0
        /\ total_created = MaxSize
        /\ Len(sessions) = before

\* C3: warmup of pool_size = n sessions of which k initializations fail ends
\* (without failing itself) with exactly n-k idle sessions, each of them
\* initialized, and total_created = n-k.
C3_WarmupPartialFailure ==
    (app_pc = "serving" /\ stats.total_requests = 0) =>
        /\ initialized
        /\ Len(sessions) = PoolSize - WarmupFailures
        /\ total_created = PoolSize - WarmupFailures
        /\ \A i \in 1..Len(sessions) : sessions[i].session_initialized

\* C3 witness: warmup has returned with some failed and some admitted sessions.
C3_Witness ==
    /\ app_pc = "serving" /\ stats.total_requests = 0
    /\ initialized
    /\ WarmupFailures >= 1
    /\ Len(sessions) = PoolSize - WarmupFailures
    /\ Len(sessions) >= 1

(***************************************************************************)
(* Claims on the protocol client.                                          *)
(***************************************************************************)
ToolMethods == {"tools/list", "tools/call"}
FailureResponses == Responses \ {"result"}
CallToolDone(u) == ulog[u].done /\ ulog[u].op = "call_tool"

\* C4 as stated: whatever the server or the transport does, call_tool does
\* not raise and returns a map without an `error` key or a map whose only
\* key is `error`.
C4_Original_ExactlyErrorOrNone ==
    \A u \in Users :
        CallToolDone(u) =>
            /\ ~ulog[u].raised
            /\ ("error" \notin ulog[u].keys \/ ulog[u].keys = {"error"})

\* C4 amended: call_tool never raises; after a JSON-RPC error, an HTTP error,
\* a transport failure or timeout, an unparsable body or a failed lazy
\* initialize it returns a map whose only key is `error`; after an answer
\* with a `result` member it returns that result as the server sent it, so
\* the map is free of `error` exactly when the server's result is.
C4_ErrorShapeOnFailure ==
    \A u \in Users :
        CallToolDone(u) =>
            /\ ~ulog[u].raised
            /\ ulog[u].resp = "result" => ulog[u].keys = ulog[u].server_keys
            /\ ulog[u].resp # "result" => ulog[u].keys = {"error"}

\* C4 witness: one call_tool has ended on a timeout with exactly {error} and
\* another on a server result without an error key.
C4_Witness ==
    \E u, v \in Users :
        /\ CallToolDone(u) /\ ulog[u].resp = "transport_error"
        /\ ulog[u].keys = {"error"}
        /\ CallToolDone(v) /\ ulog[v].resp = "result"
        /\ "error" \notin ulog[v].keys

\* C5: a tools/list or tools/call request is only ever sent while the
\* client's session_initialized is true, and a list_tools or call_tool whose
\* lazy initialize failed returns without sending its request.
C5_NoToolRequestBeforeInitialized ==
    /\ \A i \in DOMAIN sent :
          sent[i].method \in ToolMethods => sent[i].initialized
    /\ \A u \in Users :
          (ulog[u].op \in {"list_tools", "call_tool"} /\ ulog[u].init_ret = "false")
              => ~ulog[u].tool_sent

\* C5 witness: one user's lazy initialize succeeded and its tool request went
\* out, the other's lazy initialize failed and it returned without a request.
C5_Witness ==
    \E u, v \in Users :
        /\ ulog[u].op \in {"list_tools", "call_tool"}
        /\ ulog[u].init_sent /\ ulog[u].tool_sent
        /\ ulog[v].op \in {"list_tools", "call_tool"}
        /\ ulog[v].done /\ ulog[v].init_ret = "false" /\ ~ulog[v].tool_sent

\* C6: the JSON-RPC ids of the requests one client issues strictly increase
\* in issue order (so none is used twice), failed and concurrent requests
\* included.
C6_RequestIdsStrictlyIncrease ==
    \A i, j \in DOMAIN sent :
        (i < j /\ sent[i].id > 0 /\ sent[j].id > 0) => sent[i].id < sent[j].id

\* C6 witness: three requests with ids have been issued, one of them an
\* initialize that failed, and two users have requests in flight together.
C6_Witness ==
    /\ Cardinality({i \in DOMAIN sent : sent[i].id > 0}) >= 3
    /\ \A u \in Users : upc[u] \in {"init_wait", "tool_wait"}
    /\ \E u \in Users : ulog[u].prev_failed

\* C7: initialize never raises; on a transport failure, HTTP error,
\* unparsable body or JSON-RPC error it returns false and does not set
\* session_initialized, so a later initialize call sends a new initialize
\* request; called with session_initialized true it returns true without
\* sending anything.
C7_InitializeNeverRaises ==
    /\ \A u \in Users :
          /\ ulog[u].init_ret # "raise"
          /\ ulog[u].init_resp \in FailureResponses =>
                 /\ ulog[u].init_ret = "false"
                 /\ ulog[u].flag_after = ulog[u].flag_before
          /\ (ulog[u].op # "none" /\ ~ulog[u].flag_at_call) => ulog[u].init_sent
          /\ (ulog[u].op = "initialize" /\ ulog[u].flag_at_call) =>
                 /\ ~ulog[u].init_sent
                 /\ ulog[u].done /\ ~ulog[u].raised /\ ulog[u].keys = {"true"}
    /\ session_initialized =>
          \E i \in DOMAIN sent : sent[i].method = "notifications/initialized"

\* C7 witness: a user whose initialize failed has called initialize again
\* and a second initialize request is in flight.
C7_Witness ==
    \E u \in Users :
        /\ ulog[u].prev_failed /\ ulog[u].op = "initialize"
        /\ ~ulog[u].flag_at_call /\ ulog[u].init_sent
        /\ upc[u] = "init_wait"
        /\ Cardinality({i \in DOMAIN sent : sent[i].method = "initialize"}) >= 2

(***************************************************************************)
(* Claims on the generate loop.                                            *)
(***************************************************************************)
TaskStates == {tasks[j].state : j \in DOMAIN tasks}

\* C8: when a model turn requests k >= 2 tools, every one of the k calls has
\* been started (its task has run to its POST) before any of them completes:
\* no call of the turn is finished while another has not yet started.
C8_AllStartedBeforeAnyCompletes ==
    (gpc = "tools" /\ Len(tasks) >= 2 /\ "done" \in TaskStates)
        => "pending" \notin TaskStates

\* Two or more calls are in flight together, none answered yet.
C8_Witness ==
    /\ gpc = "tools"
    /\ Len(tasks) >= 2
    /\ TaskStates = {"in_flight"}

\* The transcript from position i on opens with an assistant tool_use turn
\* answered by the user turn that follows it: as many results as calls, the
\* j-th result carrying the id of the j-th call.
Answered(i) ==
    /\ i + 1 <= Len(messages)
    /\ messages[i + 1].role = "user"
    /\ Len(messages[i + 1].results) = Len(messages[i].ids)
    /\ \A j \in 1..Len(messages[i].ids) :
          messages[i + 1].results[j].tool_use_id = messages[i].ids[j]

\* C9: for every tool_use turn requesting k tools, exactly k results are
\* appended, the j-th carrying the id of the j-th requested call, failed or
\* not, and they are all in the transcript before the next model call: while
\* a model call is awaited every assistant turn is answered, and an
\* unanswered assistant turn is the last message, only while its tools run.
C9_ResultsBeforeNextModelCall ==
    \A i \in 1..Len(messages) :
        messages[i].role = "assistant" =>
            \/ Answered(i)
            \/ i = Len(messages) /\ (gpc = "tools" \/ outcome = "raised_tool")

\* A second model call is awaited after a turn of two calls, one of which
\* failed, both results being in the transcript.
C9_Witness ==
    /\ gpc = "model_wait"
    /\ model_calls = 2
    /\ Len(messages) = 3
    /\ Len(messages[2].ids) = 2
    /\ Answered(2)
    /\ messages[3].results[1].failed
    /\ ~messages[3].results[2].failed

\* The last user turn answers calls of which one at least failed.
LastTurnHadFailure ==
    /\ Len(messages) >= 3
    /\ messages[Len(messages)].role = "user"
    /\ \E j \in 1..Len(messages[Len(messages)].results) :
          messages[Len(messages)].results[j].failed

\* C10: a failed tool call (server error, transport error, timeout) never
\* ends the run with an error: no exception of a tool task leaves generate,
\* the failed call's result is in the transcript with an error in it, and
\* with it appended the loop is at its next iteration (the next model call
\* while a turn of the budget is left, the fallback plan after the last).
C10_ToolFailureNeverAbortsRun ==
    /\ outcome # "raised_tool"
    /\ \A i \in 1..Len(messages) : \A j \in 1..Len(messages[i].results) :
          messages[i].results[j].failed => messages[i].results[j].error
    /\ (gpc = "tools" /\ tasks # <<>> /\ TaskStates = {"done"}) => ENABLED GatherDone
    /\ (LastTurnHadFailure /\ turn < MaxTurns /\ outcome = "none")
          => gpc \in {"model_wait", "backoff", "enrich_wait", "validate", "fallback_enrich"}

\* The next model call is awaited right after a turn in which a call failed.
C10_Witness ==
    /\ LastTurnHadFailure
    /\ gpc = "model_wait"
    /\ model_calls = turn + 1
    /\ outcome = "none"

DiagsFor(o, t) == {i \in 1..Len(o.diags) : o.diags[i].tool = t}

\* The enrichment whose flight search timed out while its hotel search found
\* options and its weather search found days has ended.
FlightTimedOutOthersFound ==
    /\ enrich_in.flights.resp = "transport_error"
    /\ enrich_in.hotels = [resp |-> "result", data |-> "options"]
    /\ enrich_in.weather = [resp |-> "result", data |-> "days"]

\* C12: when the flight search times out while the hotel and weather searches
\* succeed, the resulting plan has lodging.selected and weather from the
\* searches, flights.outbound null, and exactly one toolDiagnostics entry for
\* "flights.search", with ok false.
C12_FlightTimeoutDiagnostic ==
    FlightTimedOutOthersFound =>
        /\ outcome # "raised_enrich"
        /\ obj.lodging = "mcp"
        /\ obj.weather = "mcp"
        /\ obj.outbound = "null"
        /\ Cardinality(DiagsFor(obj, "flights.search")) = 1
        /\ \A i \in DiagsFor(obj, "flights.search") : ~obj.diags[i].ok

\* C13: when the model's final text is no valid JSON and the re-parse of the
\* span from its first "{" to its last "}" fails too (or there is no such
\* span), the run ends by returning the fallback plan, not by raising.
C13_UnparsableTextEndsInFallback ==
    (gpc = "done" /\ guard.called /\ guard.raised) => outcome = "fallback"

\* The requests one chat_with_tools call has sent: the answered ones and the
\* one in flight.
RequestsSent == Len(statuses) + (IF gpc = "model_wait" THEN 1 ELSE 0)

\* C14: one chat_with_tools call sends at most max_retries requests; a
\* request is followed by another only if it was answered 429 and attempts
\* remained; any other failure ends the call with a raise right after the
\* request that met it.
C14_AtMostMaxRetriesRequests ==
    /\ RequestsSent <= MaxRetries
    /\ gpc = "model_wait" => Len(statuses) = attempt
    /\ \A i \in 1..(RequestsSent - 1) : statuses[i] = "rate_limited"
    /\ gpc = "backoff" =>
          /\ statuses[Len(statuses)] = "rate_limited"
          /\ Len(statuses) < MaxRetries
    /\ \A i \in 1..Len(statuses) :
          statuses[i] # "rate_limited" =>
             /\ i = Len(statuses)
             /\ gpc = "done"
             /\ outcome = "raised_model"
    /\ (Len(statuses) = MaxRetries) => (gpc = "done" /\ outcome = "raised_model")

C14_Witness ==
    /\ gpc = "done"
    /\ outcome = "raised_model"
    /\ statuses = <<"rate_limited", "rate_limited", "http_error">>

\* C15: a chat_with_tools call that raises raises RateLimitError exactly
\* when each of its max_retries requests was answered 429; every other
\* failure raises some other error kind.
C15_RateLimitErrorIffExhausted ==
    outcome = "raised_model" =>
        /\ error_kind # "none"
        /\ error_kind = "RateLimitError" <=>
              /\ Len(statuses) = MaxRetries
              /\ \A i \in 1..Len(statuses) : statuses[i] = "rate_limited"

C15_Witness ==
    /\ outcome = "raised_model"
    /\ error_kind = "RateLimitError"
    /\ Len(statuses) = MaxRetries

(***************************************************************************)
(* normalize_to_contract (planner.py lines 65-448)                         *)
(***************************************************************************)

Digits == {"0", "1", "2", "3", "4", "5", "6", "7", "8", "9"}

DigitVal(c) ==
    CASE c = "0" -> 0 [] c = "1" -> 1 [] c = "2" -> 2 [] c = "3" -> 3
      [] c = "4" -> 4 [] c = "5" -> 5 [] c = "6" -> 6 [] c = "7" -> 7
      [] c = "8" -> 8 [] c = "9" -> 9

DigitChar(n) ==
    CASE n = 0 -> "0" [] n = 1 -> "1" [] n = 2 -> "2" [] n = 3 -> "3"
      [] n = 4 -> "4" [] n = 5 -> "5" [] n = 6 -> "6" [] n = 7 -> "7"
      [] n = 8 -> "8" [] n = 9 -> "9"

IsNumericChar(c) == c \in Digits \cup {"."}
IsDigit(c) == c \in Digits
IsDot(c) == c = "."

\* re.sub(r'[^\d.]', '', s)
StripNonNumeric(s) == SelectSeq(s, IsNumericChar)

\* str.strip() of blanks.
RECURSIVE Trim(_)
Trim(s) ==
    IF s = <<>> THEN s
    ELSE IF Head(s) = " " THEN Trim(Tail(s))
    ELSE IF s[Len(s)] = " " THEN Trim(SubSeq(s, 1, Len(s) - 1))
    ELSE s

\* The index of the first c in s, 0 if there is none.
IndexOf(s, c) ==
    IF \E i \in 1..Len(s) : s[i] = c
    THEN CHOOSE i \in 1..Len(s) : s[i] = c /\ \A j \in 1..(i - 1) : s[j] # c
    ELSE 0

\* s.split(c)[0]
BeforeFirst(s, c) == IF IndexOf(s, c) = 0 THEN s ELSE SubSeq(s, 1, IndexOf(s, c) - 1)

\* The number the digits of s spell, read left to right.
RECURSIVE DigitsValue(_)
DigitsValue(s) ==
    IF s = <<>> THEN 0 ELSE 10 * DigitsValue(SubSeq(s, 1, Len(s) - 1)) + DigitVal(s[Len(s)])

\* A number with the trailing zeros of its fraction removed: 9.410 is 9.41.
RECURSIVE Reduced(_, _)
Reduced(n, sc) ==
    IF sc > 0 /\ n % 10 = 0 THEN Reduced(n \div 10, sc - 1) ELSE Num(n, sc)

(***************************************************************************)
(* float(s) for a string of blanks, digits, dots and other characters, none*)
(* of them a sign, an exponent or an underscore and s not "inf" or "nan":  *)
(* the text between the blanks must be digits with at most one dot and at  *)
(* least one digit.                                                        *)
(***************************************************************************)
ParseFloat(s) ==
    LET t == Trim(s)
        ok == /\ \A i \in 1..Len(t) : IsNumericChar(t[i])
              /\ Len(SelectSeq(t, IsDot)) <= 1
              /\ SelectSeq(t, IsDigit) # <<>>
        frac == IF IndexOf(t, ".") = 0 THEN 0 ELSE Len(t) - IndexOf(t, ".")
    IN  IF ok
        THEN [ok |-> TRUE, v |-> Reduced(DigitsValue(SelectSeq(t, IsDigit)), frac)]
        ELSE [ok |-> FALSE, v |-> None]

\* int(v) for a truthy v (line 115): a number is truncated, a string must be
\* digits between blanks, a dict is a TypeError.
ParseInt(v) ==
    CASE v.t = "num" -> [ok |-> TRUE, n |-> v.n \div (10 ^ v.sc), error |-> "none"]
      [] v.t = "str" ->
            IF Trim(v.s) # <<>> /\ \A i \in 1..Len(Trim(v.s)) : IsDigit(Trim(v.s)[i])
            THEN [ok |-> TRUE, n |-> DigitsValue(Trim(v.s)), error |-> "none"]
            ELSE [ok |-> FALSE, n |-> 0, error |-> "ValueError"]
      [] OTHER -> [ok |-> FALSE, n |-> 0, error |-> "TypeError"]

\* The price coercion of coerce_flight (lines 134-147), applied to
\* val.get("price"); the same code coerces the hotel price (lines 186-197).
CoercePrice(v) ==
    CASE v.t = "str" ->
            IF StripNonNumeric(v.s) # <<>> /\ ParseFloat(StripNonNumeric(v.s)).ok
            THEN ParseFloat(StripNonNumeric(v.s)).v
            ELSE None
      [] v.t = "num" -> v
      [] OTHER -> None

\* coerce_hotel's price (line 185): val.get("priceTotal") or val.get("price"),
\* for a hotel map without a "price" key.
CoerceHotelPrice(priceTotal) == CoercePrice(Or(Get(priceTotal), None))

\* coerce_hotel's rating (lines 166-182).
CoerceRating(v) ==
    CASE v.t = "str" ->
            IF IndexOf(v.s, "/") # 0
            THEN ParseFloat(BeforeFirst(v.s, "/")).v
            ELSE ParseFloat(v.s).v
      [] v.t = "num" -> v
      [] OTHER -> None

\* extract_amount (lines 347-358).
ExtractAmount(v) ==
    CASE v.t = "dict" -> Or(Str(v.s), None)
      [] v.t = "str" ->
            IF StripNonNumeric(v.s) # <<>> /\ ParseFloat(StripNonNumeric(v.s)).ok
            THEN ParseFloat(StripNonNumeric(v.s)).v
            ELSE None
      [] OTHER -> v

\* The breakdown entry "flights" (lines 360-377): taken from pricing itself
\* while pricing has no breakdown map.
Breakdown(pricing) ==
    IF pricing.breakdown
    THEN ExtractAmount(Get(pricing.flights))
    ELSE ExtractAmount(Or(Get(pricing.flights), None))

\* The strings used below, character by character.
S_roma == <<"r", "o", "m", "a">>
S_Rome == <<"R", "o", "m", "e">>
S_morning == <<"m", "o", "r", "n", "i", "n", "g">>
S_afternoon == <<"a", "f", "t", "e", "r", "n", "o", "o", "n">>
S_evening == <<"e", "v", "e", "n", "i", "n", "g">>
S_late_night == <<"l", "a", "t", "e", "-", "n", "i", "g", "h", "t">>
S_transit == <<"t", "r", "a", "n", "s", "i", "t">>
S_check_in == <<"c", "h", "e", "c", "k", "-", "i", "n">>
S_check_out == <<"c", "h", "e", "c", "k", "-", "o", "u", "t">>
S_sabah == <<"s", "a", "b", "a", "h">>
S_gece == <<"g", "e", "c", "e">>
S_0930 == <<"0", "9", ":", "3", "0">>
S_7880_TL == <<"7", ",", "8", "8", "0", " ", "T", "L">>
S_94_of_10 == <<"9", ".", "4", "/", "1", "0">>
S_not_a_number == <<"n", "o", "t", " ", "a", " ", "n", "u", "m", "b", "e", "r">>
S_0_TL == <<"0", " ", "T", "L">>
S_2h_30m == <<"2", "h", " ", "3", "0", "m">>
S_3_4_days == <<"3", "-", "4", " ", "d", "a", "y", "s">>
S_Morning == <<"M", "o", "r", "n", "i", "n", "g">>
S_Transit == <<"T", "r", "a", "n", "s", "i", "t">>
S_1945 == <<"1", "9", ":", "4", "5">>
S_low == <<"l", "o", "w">>
S_medium == <<"m", "e", "d", "i", "u", "m">>
S_high == <<"h", "i", "g", "h">>
S_HIGH == <<"H", "I", "G", "H">>

\* str.lower(), for the capitals that occur in those strings.
LowerChar(c) ==
    CASE c = "R" -> "r" [] c = "T" -> "t" [] c = "L" -> "l" [] c = "M" -> "m"
      [] c = "H" -> "h" [] c = "I" -> "i" [] c = "G" -> "g" [] OTHER -> c
Lower(s) == [i \in 1..Len(s) |-> LowerChar(s[i])]

\* normalize_city_name (lines 76-91) for a string: of city_translations only
\* the entry "roma" is carried.
NormalizeCityName(s) ==
    IF s = <<>> THEN <<>>
    ELSE IF Lower(Trim(s)) = S_roma THEN S_Rome ELSE Trim(s)

\* origin_raw (line 93), for maps without a top-level "from" or an "origin".
OriginRaw(x) == Or(Get(x.from), Or(Get(x.originCity), Str(<<>>)))

\* datetime.utcnow().isoformat() + "Z" at tick c.
NowIso(c) == <<"T", DigitChar(c)>>

\* ensure_segment_fields (lines 107-117): durationMinutes.
SegmentDuration(seg) == ParseInt(Or(Get(seg.durationMinutes), Num(0, 0)))

\* coerce_flight (lines 119-149) for a flight map that keeps its segments
\* under "segments"; null for what is no map.
CoerceFlight(val) ==
    IF ~val.dict THEN [dict |-> FALSE, price |-> Absent, segments |-> <<>>]
    ELSE [dict |-> TRUE,
          price |-> CoercePrice(Get(val.price)),
          segments |-> [i \in 1..Len(val.segments) |->
                           [durationMinutes |-> Num(SegmentDuration(val.segments[i]).n, 0)]]]

\* The exception coerce_flight raises, "none" if it returns.
CoerceFlightError(val) ==
    IF val.dict /\ \E i \in 1..Len(val.segments) : ~SegmentDuration(val.segments[i]).ok
    THEN SegmentDuration(val.segments[
             CHOOSE i \in 1..Len(val.segments) :
                 /\ ~SegmentDuration(val.segments[i]).ok
                 /\ \A j \in 1..(i - 1) : SegmentDuration(val.segments[j]).ok]).error
    ELSE "none"

\* _as_list (lines 57-62) of dict.get(key): null and a missing key give
\* the empty list, a list is itself, anything else a list of one element.
AsList(v) ==
    CASE v.k \in {"absent", "none"} -> ListOf(<<>>)
      [] v.k = "list" -> v
      [] OTHER -> ListOf(<<v.k>>)

\* `lst or None` (lines 154, 215, 415): the empty list is falsy.
OrNone(l) == IF l.elems = <<>> THEN NullList ELSE l

\* weather_norm (lines 226-241): the elements that are maps.
WeatherNorm(v) == ListOf(SelectSeq(AsList(v).elems, LAMBDA e : e = "dict"))

\* items_normalized (lines 290-328): every element becomes a {type, data} map.
BlockItems(v) == ListOf([i \in 1..Len(AsList(v).elems) |-> "dict"])

Levels == {S_low, S_medium, S_high}

\* pricing.confidence (lines 392-410): a number is a percentage, a string
\* is lower-cased and kept when it is a level, anything else is "low".
Confidence(v) ==
    CASE v.t = "num" ->
            IF v.n >= 75 * (10 ^ v.sc) THEN Str(S_high)
            ELSE IF v.n >= 50 * (10 ^ v.sc) THEN Str(S_medium)
            ELSE Str(S_low)
      [] v.t = "str" -> IF Lower(v.s) \in Levels THEN Str(Lower(v.s)) ELSE Str(S_low)
      [] OTHER -> Str(S_low)

\* coerce_hotel (lines 161-211).
CoerceHotel(val) ==
    [priceTotal |-> CoerceHotelPrice(val.priceTotal),
     rating |-> CoerceRating(Get(val.rating))]

\* label_map (lines 252-264), its ASCII keys.
LabelMap(l) ==
    CASE l = S_sabah -> S_morning
      [] l = S_gece -> S_late_night
      [] l = S_check_in -> S_check_in
      [] l = S_check_out -> S_check_out
      [] l = S_transit -> S_transit
      [] OTHER -> <<>>

ValidLabels ==
    {S_morning, S_afternoon, S_evening, S_late_night, S_transit, S_check_in, S_check_out}

\* coerce_block's label (lines 250-288):
\* b.get("label") or b.get("time") or "morning", then the normalization of
\* a label that is a string.
BlockLabel(b) ==
    LET label == Or(Or(Get(b.label), Get(b.time)), Str(S_morning))
        lower == Trim(Lower(label.s))
        hour == ParseInt(Str(BeforeFirst(label.s, ":")))
    IN  IF label.t # "str" THEN label
        ELSE IF LabelMap(lower) # <<>> THEN Str(LabelMap(lower))
        ELSE IF IndexOf(label.s, ":") # 0 /\ Len(label.s) <= 5
             THEN IF ~hour.ok THEN Str(S_morning)
                  ELSE IF hour.n < 6 THEN Str(S_late_night)
                  ELSE IF hour.n < 12 THEN Str(S_morning)
                  ELSE IF hour.n < 18 THEN Str(S_afternoon)
                  ELSE Str(S_evening)
        ELSE IF lower \notin ValidLabels THEN Str(S_morning)
        ELSE label

\* coerce_block (lines 245-330) for a block without items: what is no map
\* becomes a map of two keys, a map gets "notes" as well.
CoerceBlock(b) ==
    IF ~b.dict
    THEN [dict |-> TRUE, label |-> Str(S_transit), time |-> Absent, notes |-> Absent,
          items |-> ListOf(<<>>)]
    ELSE [dict |-> TRUE, label |-> BlockLabel(b), time |-> Absent, notes |-> Get(b.notes),
          items |-> BlockItems(b.items)]

\* coerce_day (lines 332-337).
CoerceDay(d) ==
    IF ~d.dict
    THEN [dict |-> TRUE, dateISO |-> Str(<<>>), blocks |-> <<>>, dailyTips |-> Absent]
    ELSE [dict |-> TRUE,
          dateISO |-> Or(Get(d.dateISO), Str(<<>>)),
          blocks |-> [i \in 1..Len(d.blocks) |-> CoerceBlock(d.blocks[i])],
          dailyTips |-> Get(d.dailyTips)]

(***************************************************************************)
(* normalize_to_contract(x) called at tick `now`: the exception it raises, *)
(* or the map it returns with the top-level keys of lines 436-446.         *)
(***************************************************************************)
NormalizeToContract(x, now) ==
    IF Truthy(OriginRaw(x)) /\ OriginRaw(x).t # "str"
    THEN \* city_name.strip() on what is no string, line 89
         [raised |-> TRUE, error |-> "AttributeError", keys |-> {}, value |-> x]
    ELSE IF CoerceFlightError(x.outbound) # "none"
    THEN \* int(...) of line 115
         [raised |-> TRUE, error |-> CoerceFlightError(x.outbound), keys |-> {}, value |-> x]
    ELSE [raised |-> FALSE, error |-> "none", keys |-> TopLevelKeys,
          value |->
            [from |-> x.from,
             originCity |-> IF x.originCity.t = "absent"
                            THEN Str(NormalizeCityName(OriginRaw(x).s))
                            ELSE x.originCity,
             generatedAtISO |-> Or(Get(x.generatedAtISO), Str(NowIso(now))),
             outbound |-> CoerceFlight(x.outbound),
             selected |-> CoerceHotel(x.selected),
             flights_alternatives |-> OrNone(AsList(x.flights_alternatives)),
             lodging_alternatives |-> OrNone(AsList(x.lodging_alternatives)),
             localPasses |-> AsList(x.localPasses),
             intercity |-> AsList(x.intercity),
             weather |-> WeatherNorm(x.weather),
             days |-> [i \in 1..Len(x.days) |-> CoerceDay(x.days[i])],
             pricing |-> [breakdown |-> TRUE, flights |-> Breakdown(x.pricing),
                          confidence |-> Confidence(Get(x.pricing.confidence)),
                          notes |-> OrNone(AsList(x.pricing.notes))]]]

\* The amounts an answer may carry: null, a number, and strings.
AmountSamples ==
    {None, Num(120, 0), Str(S_7880_TL), Str(S_94_of_10), Str(S_not_a_number), Str(S_0_TL)}

DurationSamples == {Absent, Num(90, 0), Str(S_2h_30m)}

FlightSamples ==
    {[dict |-> FALSE, price |-> Absent, segments |-> <<>>]} \cup
    {[dict |-> TRUE, price |-> p, segments |-> <<[durationMinutes |-> d]>>] :
        p \in AmountSamples, d \in DurationSamples}

HotelSamples == [priceTotal : AmountSamples, rating : AmountSamples]

StringDay == [dict |-> FALSE, dateISO |-> Absent, blocks |-> <<>>, dailyTips |-> Absent]
StringBlock == [dict |-> FALSE, label |-> Absent, time |-> Absent, notes |-> Absent,
                items |-> NoList]

DaysSamples ==
    {<<>>,
     <<StringDay>>,
     <<[dict |-> TRUE, dateISO |-> Absent, dailyTips |-> Absent,
        blocks |-> <<[dict |-> TRUE, label |-> Str(S_0930), time |-> Absent,
                      notes |-> Absent, items |-> NoList]>>]>>,
     <<[dict |-> TRUE, dateISO |-> Absent, dailyTips |-> None,
        blocks |-> <<StringBlock>>]>>}

PricingSamples ==
    {[breakdown |-> FALSE, flights |-> Absent, confidence |-> Absent, notes |-> NoList],
     [breakdown |-> FALSE, flights |-> Str(S_7880_TL), confidence |-> Absent, notes |-> NoList],
     [breakdown |-> TRUE, flights |-> Str(S_94_of_10), confidence |-> Absent, notes |-> NoList],
     [breakdown |-> TRUE, flights |-> TotalDict(S_7880_TL), confidence |-> Absent,
      notes |-> NoList]}

\* Labels and times of a block: missing, null, empty, the contract's own
\* words in lower case and capitalized, Turkish synonyms, clock times, free
\* text, a number.
LabelSamples ==
    {Absent, None, Str(<<>>), Str(S_evening), Str(S_Morning), Str(S_Transit),
     Str(S_sabah), Str(S_gece), Str(S_1945), Str(S_not_a_number), Num(5, 0)}

TimeSamples == {Absent, Str(S_0930), Str(S_Morning)}

\* pricing.confidence: missing, null, percentages, words, a map.
ConfidenceSamples ==
    {Absent, None, Num(90, 0), Num(75, 0), Num(749, 1), Num(50, 0), Num(49, 0),
     Str(S_HIGH), Str(S_medium), Str(S_not_a_number), TotalDict(S_high)}

\* Plans of one day with one block, varied in the block's label and time and
\* in pricing.confidence.
LabelPlans ==
    {[NoPlan EXCEPT
        !.days = <<[dict |-> TRUE, dateISO |-> Absent, dailyTips |-> Absent,
                    blocks |-> <<[dict |-> TRUE, label |-> l, time |-> t,
                                  notes |-> Absent, items |-> NoList]>>]>>,
        !.pricing.confidence = c] :
        l \in LabelSamples, t \in TimeSamples, c \in ConfidenceSamples}

\* Plans varied in their amounts, durations and origin.
AmountPlans ==
    [from : {Absent, Str(S_roma), Num(5, 0)},
     originCity : {Absent},
     generatedAtISO : {Absent, Str(NowIso(0))},
     outbound : FlightSamples,
     selected : HotelSamples,
     flights_alternatives : {NoList}, lodging_alternatives : {NoList},
     localPasses : {NoList}, intercity : {NoList}, weather : {NoList},
     days : DaysSamples,
     pricing : PricingSamples]

\* What an answer may give where a list is expected: nothing, null, a
\* single map, a string, and lists of none, one and two elements.
ListSamples ==
    {NoList, NullList, Single("dict"), Single("str"), ListOf(<<>>),
     ListOf(<<"dict">>), ListOf(<<"dict", "str">>)}

\* Plans of one day with one block, varied in the keys that hold lists: a
\* for the alternatives and the notes, b for transport, weather and items.
ListPlans ==
    {[NoPlan EXCEPT
        !.flights_alternatives = a, !.lodging_alternatives = a,
        !.pricing.notes = a,
        !.localPasses = b, !.intercity = b, !.weather = b,
        !.days = <<[dict |-> TRUE, dateISO |-> Absent, dailyTips |-> Absent,
                    blocks |-> <<[dict |-> TRUE, label |-> Absent, time |-> Absent,
                                  notes |-> Absent, items |-> b]>>]>>] :
        a \in ListSamples, b \in ListSamples}

\* The decoded maps normalize_to_contract is given.
Plans == AmountPlans \cup LabelPlans \cup ListPlans

\* generate (line 1118) or a caller normalizes a decoded answer.
Normalize ==
    /\ npc = "idle"
    /\ \E x \in Plans :
          /\ norm_in' = x
          /\ norm_out' = NormalizeToContract(x, clock)
    /\ npc' = "once"
    /\ clock' = clock + 1
    /\ UNCHANGED norm_again
    /\ UNCHANGED notNorm

\* The map that came back is normalized once more.
Renormalize ==
    /\ npc = "once"
    /\ ~norm_out.raised
    /\ norm_again' = NormalizeToContract(norm_out.value, clock)
    /\ npc' = "twice"
    /\ clock' = clock + 1
    /\ UNCHANGED <<norm_in, norm_out>>
    /\ UNCHANGED notNorm

NormNext == Normalize \/ Renormalize

NormSpec == Init /\ [][NormNext]_vars

\* C16: normalize_to_contract never raises, and the map it returns has the
\* nine top-level keys, whatever the types of the values of its input.
C16_NormalizeIsTotal ==
    npc # "idle" => (~norm_out.raised /\ norm_out.keys = TopLevelKeys)

\* C17: normalizing the map normalize_to_contract returned gives that map
\* again.
C17_NormalizeIsIdempotent ==
    npc = "twice" => (~norm_again.raised /\ norm_again.value = norm_out.value)

\* What amount normalization is to give for a string, as C18 has it: the
\* leading numeric value, null for null and for what holds no number.
ExpectedAmount(v) ==
    CASE v = Str(S_7880_TL) -> Num(7880, 0)
      [] v = Str(S_94_of_10) -> Num(94, 1)
      [] v = Str(S_not_a_number) -> None
      [] v = None -> None

ClaimedAmounts == {None, Str(S_7880_TL), Str(S_94_of_10), Str(S_not_a_number)}

\* C18: in every numeric field the normalizer coerces (flight price, hotel
\* priceTotal, hotel rating, pricing amounts), "7,880 TL" gives 7880.0,
\* "9.4/10" gives 9.4, null gives null and "not a number" gives null.
C18_AmountsKeepLeadingNumber ==
    (npc # "idle" /\ ~norm_out.raised) =>
        /\ (norm_in.outbound.dict /\ norm_in.outbound.price \in ClaimedAmounts) =>
              norm_out.value.outbound.price = ExpectedAmount(norm_in.outbound.price)
        /\ norm_in.selected.priceTotal \in ClaimedAmounts =>
              norm_out.value.selected.priceTotal = ExpectedAmount(norm_in.selected.priceTotal)
        /\ norm_in.selected.rating \in ClaimedAmounts =>
              norm_out.value.selected.rating = ExpectedAmount(norm_in.selected.rating)
        /\ Get(norm_in.pricing.flights) \in ClaimedAmounts =>
              norm_out.value.pricing.flights = ExpectedAmount(Get(norm_in.pricing.flights))

(***************************************************************************)
(* _normalize_to_schema, the `dates` part (prompt_parser.py lines 186-195),*)
(* with _parse_duration_to_int (131-146) and _compute_end_date_if_missing  *)
(* (149-159).                                                              *)
(***************************************************************************)

\* The longest duration a parsed prompt carries here.
MaxDuration == 4

IsLeap(y) == y % 4 = 0 /\ (y % 100 # 0 \/ y % 400 = 0)

DaysInMonth(y, m) ==
    CASE m \in {1, 3, 5, 7, 8, 10, 12} -> 31
      [] m \in {4, 6, 9, 11} -> 30
      [] m = 2 -> IF IsLeap(y) THEN 29 ELSE 28

\* datetime's ordinal of a date: the days before its year (counted from
\* 0001-01-01), the days before its month, and its day.
DaysBeforeYear(y) ==
    (y - 1) * 365 + ((y - 1) \div 4) - ((y - 1) \div 100) + ((y - 1) \div 400)

RECURSIVE DaysBeforeMonth(_, _)
DaysBeforeMonth(y, m) ==
    IF m = 1 THEN 0 ELSE DaysBeforeMonth(y, m - 1) + DaysInMonth(y, m - 1)

ToOrdinal(date) == DaysBeforeYear(date.y) + DaysBeforeMonth(date.y, date.m) + date.d

\* The date of an ordinal.
FromOrdinal(n) ==
    LET y == CHOOSE yy \in (n \div 366)..(n \div 365 + 1) :
                 DaysBeforeYear(yy) < n /\ n <= DaysBeforeYear(yy + 1)
        m == CHOOSE mm \in 1..12 :
                 /\ DaysBeforeYear(y) + DaysBeforeMonth(y, mm) < n
                 /\ n <= DaysBeforeYear(y) + DaysBeforeMonth(y, mm) + DaysInMonth(y, mm)
    IN  [y |-> y, m |-> m, d |-> n - DaysBeforeYear(y) - DaysBeforeMonth(y, m)]

\* A date string; `text` is a non-empty string that is not of the form Y-M-D.
DateString(y, m, d, padded) == [kind |-> "date", y |-> y, m |-> m, d |-> d, padded |-> padded]
TextDate == [kind |-> "text", y |-> 0, m |-> 0, d |-> 0, padded |-> FALSE]
EmptyDate == [kind |-> "empty", y |-> 0, m |-> 0, d |-> 0, padded |-> FALSE]
NullDate == [kind |-> "null", y |-> 0, m |-> 0, d |-> 0, padded |-> FALSE]

TruthyDate(ds) == ds.kind \in {"date", "text"}

\* datetime.strptime(s, "%Y-%m-%d"): a ValueError unless s names a day of
\* the calendar; the digits need not be zero-padded.
Strptime(ds) ==
    IF ds.kind = "date" /\ ds.m \in 1..12 /\ ds.d \in 1..DaysInMonth(ds.y, ds.m)
    THEN [ok |-> TRUE, date |-> [y |-> ds.y, m |-> ds.m, d |-> ds.d]]
    ELSE [ok |-> FALSE, date |-> [y |-> 0, m |-> 0, d |-> 0]]

\* dt.strftime("%Y-%m-%d"): always zero-padded.
Strftime(date) == DateString(date.y, date.m, date.d, TRUE)

\* The runs of digits in s, as numbers: re.findall(r"\d+", s).
RECURSIVE DigitRuns(_, _)
DigitRuns(s, run) ==
    IF s = <<>> THEN (IF run = <<>> THEN {} ELSE {DigitsValue(run)})
    ELSE IF IsDigit(Head(s)) THEN DigitRuns(Tail(s), Append(run, Head(s)))
    ELSE (IF run = <<>> THEN {} ELSE {DigitsValue(run)}) \cup DigitRuns(Tail(s), <<>>)

Max(S) == CHOOSE n \in S : \A k \in S : k <= n

\* _parse_duration_to_int (lines 131-146); None where it returns None.
ParseDurationToInt(v) ==
    CASE v.t = "num" -> Num(v.n \div (10 ^ v.sc), 0)
      [] v.t = "str" -> IF DigitRuns(v.s, <<>>) = {} THEN None ELSE Num(Max(DigitRuns(v.s, <<>>)), 0)
      [] OTHER -> None

\* The days added if the duration counted the nights, not the days.
TimedeltaDays_Nights(n) == IF n > 0 THEN n ELSE 0

\* The days added to the start date (line 156).
TimedeltaDays(n) == IF n > 0 THEN n - 1 ELSE 0

\* _compute_end_date_if_missing (lines 149-159): the new d.
ComputeEndDateIfMissing(d) ==
    IF /\ TruthyDate(d.start_date)
       /\ Truthy(d.duration)
       /\ ~TruthyDate(d.end_date)
       /\ Strptime(d.start_date).ok
       /\ ParseInt(d.duration).ok
    THEN [d EXCEPT !.end_date =
             Strftime(FromOrdinal(ToOrdinal(Strptime(d.start_date).date)
                                  + TimedeltaDays(ParseInt(d.duration).n)))]
    ELSE d

\* Lines 187-195; a number without a fraction stands for an int.
NormalizeDates(dates) ==
    LET isint == dates.duration.t = "num" /\ dates.duration.sc = 0
        dur == ParseDurationToInt(dates.duration)
        d1 == IF Get(dates.duration) # None /\ ~isint /\ dur # None
              THEN [dates EXCEPT !.duration = dur]
              ELSE dates
    IN  ComputeEndDateIfMissing(d1)

StartDates ==
    {DateString(y, m, d, pad) : y \in {2024, 2025}, m \in {2, 10, 12},
                                d \in {1, 15, 28, 29, 31}, pad \in BOOLEAN}
    \cup {NoDate, TextDate}

Durations ==
    {Absent, None, Num(25, 1), Str(S_3_4_days), Str(S_2h_30m), Str(S_not_a_number)}
    \cup {Num(n, 0) : n \in (-1)..MaxDuration}

EndDates == {NoDate, NullDate, EmptyDate, TextDate, DateString(2025, 1, 1, TRUE)}

\* parse_prompt normalizes the decoded answer of the model (line 187).
NormalizeToSchema ==
    /\ ppc = "idle"
    /\ \E dates \in [start_date : StartDates, duration : Durations, end_date : EndDates] :
          /\ dates_in' = dates
          /\ dates_out' = NormalizeDates(dates)
    /\ ppc' = "done"
    /\ UNCHANGED notParser

ParserNext == NormalizeToSchema

ParserSpec == Init /\ [][ParserNext]_vars

\* The day after a day of the calendar.
NextDay(date) ==
    IF date.d < DaysInMonth(date.y, date.m) THEN [date EXCEPT !.d = date.d + 1]
    ELSE IF date.m < 12 THEN [y |-> date.y, m |-> date.m + 1, d |-> 1]
    ELSE [y |-> date.y + 1, m |-> 1, d |-> 1]

RECURSIVE DaysAfter(_, _)
DaysAfter(date, k) == IF k = 0 THEN date ELSE DaysAfter(NextDay(date), k - 1)

\* C19: with a start_date that names a day, a positive integer duration d and
\* no end_date, the normalized dates carry as end_date the day d-1 days after
\* the start (2025-10-15 and 4 give 2025-10-18); an end_date that is there is
\* left as it is.
C19_EndDateFromStartAndDuration ==
    ppc = "done" =>
        /\ \A k \in 1..MaxDuration :
              (/\ Strptime(dates_in.start_date).ok
               /\ dates_in.duration = Num(k, 0)
               /\ ~TruthyDate(dates_in.end_date))
              => dates_out.end_date =
                    Strftime(DaysAfter(Strptime(dates_in.start_date).date, k - 1))
        /\ (/\ dates_in.start_date.kind = "date"
            /\ <<dates_in.start_date.y, dates_in.start_date.m, dates_in.start_date.d>>
                  = <<2025, 10, 15>>
            /\ dates_in.duration = Num(4, 0)
            /\ ~TruthyDate(dates_in.end_date))
           => dates_out.end_date = DateString(2025, 10, 18, TRUE)
        /\ TruthyDate(dates_in.end_date) => dates_out.end_date = dates_in.end_date

C19_Witness ==
    /\ ppc = "done"
    /\ dates_in.start_date = DateString(2024, 2, 28, FALSE)
    /\ dates_in.duration = Num(MaxDuration, 0)
    /\ dates_in.end_date = NoDate
    /\ dates_out.end_date.kind = "date"
    /\ dates_out.end_date.m = 3

\* Some turn of the run executed tool calls: the transcript holds a user
\* message with tool results.
ToolCallsMade ==
    \E i \in 1..Len(messages) : messages[i].role = "user" /\ messages[i].results # <<>>

\* C20: when the terminal answer of the model is about to be validated, the
\* enrichment pass has run exactly once if the run made no tool call, and
\* not at all if it made tool calls.
C20_EnrichedIffNoToolCalls ==
    gpc = "validate" => (IF ToolCallsMade THEN enrichments = 0 ELSE enrichments = 1)

\* The tool calls the run has executed and answered to the model: turn i,
\* call j.
ExecutedToolCalls ==
    UNION {{<<i, j>> : j \in DOMAIN messages[i].results} : i \in DOMAIN messages}

\* C21: the plan a run returns has in metadata.toolDiagnostics one record for
\* every tool call the run executed, and a record with ok == false for a call
\* that failed.
C21_ToolCallsRecordedInPlan ==
    (gpc = "done" /\ outcome \in {"plan", "fallback"}) =>
        /\ Len(obj.diags) >= Cardinality(ExecutedToolCalls)
        /\ (\E c \in ExecutedToolCalls : messages[c[1]].results[c[2]].failed)
              => \E k \in DOMAIN obj.diags : ~obj.diags[k].ok

\* The request POSTed by the step, if the step POSTs one.
Posted(m) == sent' # sent /\ sent'[Len(sent')].method = m

\* C22: in the order the requests of a client are POSTed, also with
\* concurrent users, notifications/initialized comes with the successful
\* answer to an initialize and before every tools/list and tools/call; and
\* whether or not the POST of the notification fails, initialize returns True
\* and a tool method goes on to its request.
C22_NotificationBeforeToolRequests ==
    /\ [](\A i \in DOMAIN sent :
            sent[i].method \in ToolMethods =>
               \E j \in 1..(i - 1) : sent[j].method = "notifications/initialized")
    /\ [][Posted("notifications/initialized") =>
            \E u \in Users :
               /\ upc[u] = "init_wait" /\ upc'[u] = "notify_wait"
               /\ ulog'[u].init_resp = "result"
               /\ session_initialized']_vars
    /\ [][\A u \in Users :
            (upc[u] = "notify_wait" /\ upc'[u] # "notify_wait") =>
               IF ulog[u].op = "initialize"
               THEN ulog'[u].done /\ ~ulog'[u].raised /\ ulog'[u].keys = {"true"}
               ELSE upc'[u] = "tool_wait" /\ Posted(ToolMethod(ulog[u].op))]_vars

\* Two users at once: one is still waiting for the POST of the notification
\* when the other has its tool request answered.
C22_Witness ==
    \E u, v \in Users :
        /\ upc[u] = "notify_wait"
        /\ ulog[v].done /\ ulog[v].op = "call_tool" /\ ulog[v].tool_sent
        /\ \E i \in DOMAIN sent : sent[i].method = "tools/call"

LaterMethods == {"notifications/initialized", "tools/list", "tools/call"}

\* C23 as stated: once a request of the client has carried a session id the
\* server assigned, every later notifications/initialized, tools/list and
\* tools/call carries that same id.
C23_Original_SameIdEverAfter ==
    \A i, j \in DOMAIN sent :
        (i < j /\ sent[i].sid # "none" /\ sent[j].method \in LaterMethods)
            => sent[j].sid = sent[i].sid

\* C23, amended: every request carries the session id the client holds when
\* it is POSTed; only the answer to an initialize changes that id, to the id
\* of its mcp-session-id header, so a later initialize answer replaces the
\* id; and once a request has carried an id, every later one carries one.
C23_LatestAssignedIdEchoed ==
    /\ [](\A i, j \in DOMAIN sent :
            (i < j /\ sent[i].sid # "none") => sent[j].sid # "none")
    /\ [][sent' # sent => sent'[Len(sent')].sid = session_id']_vars
    /\ [][session_id' # session_id =>
            /\ session_id' \in SessionHeaders \ {"none"}
            /\ \E u \in Users : upc[u] = "init_wait" /\ upc'[u] # "init_wait"
                                /\ InitializeOutcome(ulog'[u].init_resp).reads_header]_vars

\* A tool request carries s2 after an earlier request carried s1.
C23_Witness ==
    \E i, j \in DOMAIN sent :
        /\ i < j
        /\ sent[i].sid = "s1"
        /\ sent[j].sid = "s2"
        /\ sent[j].method \in ToolMethods

\* C24: the step in which a caller leaves get_session with a session puts
\* that session at the end of the idle queue, or leaves the queue as it is
\* when it is full, takes exactly one from active_sessions, and leaves the
\* caller outside get_session, whether its body returned or raised.
C24_ReleaseReturnsOrDiscards ==
    [][\A c \in Callers :
          (cpc[c] = "holding" /\ cpc'[c] # "holding") =>
              /\ cpc'[c] = "idle"
              /\ held'[c] = NoSession
              /\ stats'.active_sessions = stats.active_sessions - 1
              /\ IF Len(sessions) < MaxSize
                 THEN sessions' = Append(sessions, held[c])
                 ELSE sessions' = sessions]_vars

\* A session that was taken from the idle queue is back in it.
C24_Witness ==
    /\ stats.cache_hits >= 1
    /\ stats.active_sessions = 0
    /\ \A c \in Callers : cpc[c] = "idle" /\ held[c] = NoSession
    /\ Len(sessions) >= 1

\* C25: a caller that waits in sessions.get() because total_created has
\* reached max_size, while other callers hold sessions, eventually holds a
\* session itself, whatever further acquirers, releases and shutdown do.
C25_WaiterEventuallyServed ==
    \A c \in Callers :
        (/\ cpc[c] = "waiting"
         /\ total_created = MaxSize
         /\ \E d \in Callers : cpc[d] = "holding")
            ~> (cpc[c] = "holding")

Leased == {c \in Callers : cpc[c] = "holding"}

\* C26: the shutdown step leaves the idle queue empty and changes neither the
\* sessions that are leased, nor who holds them, nor active_sessions; a leased
\* session is still initialized after shutdown, and its release then puts it
\* in the queue and ends normally.
C26_ShutdownDrainsIdleOnly ==
    /\ [][(app_pc # "stopped" /\ app_pc' = "stopped") =>
              /\ Len(sessions') = 0
              /\ held' = held
              /\ cpc' = cpc
              /\ stats' = stats]_vars
    /\ [](app_pc = "stopped" =>
              \A c \in Leased : ~held[c].none /\ held[c].session_initialized)
    /\ [][\A c \in Callers :
              (app_pc = "stopped" /\ cpc[c] = "holding" /\ cpc'[c] # "holding") =>
                  /\ cpc'[c] = "idle"
                  /\ sessions' = Append(sessions, held[c])
                  /\ stats'.active_sessions = stats.active_sessions - 1]_vars

\* After a shutdown that drained at least one idle session, a session that
\* was leased during the shutdown has been released into the queue.
C26_Witness ==
    /\ app_pc = "stopped"
    /\ Len(sessions) >= 1
    /\ total_created > Len(sessions) + Cardinality(Leased)
    /\ \A c \in Callers : cpc[c] \in {"idle", "holding"}

\* The step runs inside `async with self._lock`: a caller holds the lock
\* before it or after it, or takes and gives back the lock within it.
InCriticalSection ==
    \/ lock_holder # {}
    \/ lock_holder' # {}
    \/ \E c \in Callers : cpc[c] = "lockwait" /\ cpc'[c] = "holding"

\* C27: every step that changes total_created, the idle queue, active_sessions
\* or the hit and miss counters is taken while the pool lock is held.
C27_AccountingChangesUnderLock ==
    [][(\/ total_created' # total_created
        \/ sessions' # sessions
        \/ stats'.active_sessions # stats.active_sessions
        \/ stats'.cache_hits # stats.cache_hits
        \/ stats'.cache_misses # stats.cache_misses)
          => InCriticalSection]_vars

\* C28: every tool call of a generate run that has been sent went out on a
\* client leased from the session pool.
C28_ToolCallsOnLeasedSessions ==
    \A j \in DOMAIN tasks :
        tasks[j].state \in {"in_flight", "resumed", "done"} =>
            tasks[j].client = "leased"

\* C29: in what normalize_to_contract returns, the label of every block is
\* one of the seven labels of the contract, and pricing.confidence is one of
\* low, medium, high.
C29_LabelsAndConfidenceEnumerated ==
    (npc # "idle" /\ ~norm_out.raised) =>
        /\ \A i \in DOMAIN norm_out.value.days :
              \A j \in DOMAIN norm_out.value.days[i].blocks :
                  LET label == norm_out.value.days[i].blocks[j].label
                  IN  label.t = "str" /\ label.s \in ValidLabels
        /\ norm_out.value.pricing.confidence.t = "str"
        /\ norm_out.value.pricing.confidence.s \in Levels

\* The list-valued keys of a plan map, with the items of its blocks.
ListFields(v) ==
    <<v.flights_alternatives, v.lodging_alternatives, v.localPasses, v.intercity,
      v.weather, v.pricing.notes>> \o
    [i \in 1..Len(v.days) |->
        IF v.days[i].blocks = <<>> THEN NoList ELSE v.days[i].blocks[1].items]

\* C30: in what normalize_to_contract returns every list-valued field is a
\* list: empty where the input had no value or null, of one element where
\* the input had a single map; never null.
C30_ListFieldsAreLists ==
    (npc = "once" /\ ~norm_out.raised /\ norm_in \in ListPlans) =>
        \A f \in DOMAIN ListFields(norm_in) :
            LET in == ListFields(norm_in)[f]
                out == ListFields(norm_out.value)[f]
            IN  /\ out.k = "list"
                /\ in.k \in {"absent", "none"} => out.elems = <<>>
                /\ in.k = "dict" => Len(out.elems) = 1

IsPrefix(a, b) == Len(a) <= Len(b) /\ \A i \in DOMAIN a : b[i] = a[i]

\* C35: within a generate run the transcript only grows at its end, its
\* roles are user, assistant, user, ... from the first turn on, and whenever
\* a model call is made or awaited the last turn is a user turn.
C35_TranscriptAppendOnlyAlternating ==
    /\ [][IsPrefix(messages, messages')]_vars
    /\ [](\A i \in DOMAIN messages :
             messages[i].role = IF i % 2 = 1 THEN "user" ELSE "assistant")
    /\ [][model_calls' # model_calls =>
             messages' # <<>> /\ messages'[Len(messages')].role = "user"]_vars
    /\ [](gpc \in {"model_wait", "backoff"} =>
             messages # <<>> /\ messages[Len(messages)].role = "user")

\* The second model call of a run: the transcript holds the prompt, the
\* assistant's tool_use turn and the user turn with the tool results.
C35_Witness ==
    /\ gpc = "model_wait"
    /\ model_calls = 2
    /\ Len(messages) = 3
    /\ messages[3].results # <<>>

\* C36: once warmup has returned, total_created is the number of idle
\* sessions plus active_sessions, and active_sessions is the number of
\* sessions checked out and is not negative.
C36_CreatedIsIdlePlusActive ==
    app_pc \in {"serving", "stopped"} =>
        /\ total_created = Len(sessions) + stats.active_sessions
        /\ stats.active_sessions = Cardinality(Leased)
        /\ stats.active_sessions >= 0

\* C37: a get_session whose creation fails ends without a session, with the
\* lock free and with total_created, the idle queue and active_sessions as
\* they were when it was called (the steps of the call change none of them),
\* and total_created is still under max_size, so the next caller that
\* misses the queue takes the creating branch again.
C37_FailedCreationLeavesPoolUnchanged ==
    /\ [][\A c \in Callers :
              (cpc[c] = "creating" /\ cpc'[c] = "idle") =>
                  /\ lock_holder = {c} /\ lock_holder' = {}
                  /\ held'[c] = NoSession
                  /\ total_created' = total_created
                  /\ total_created' < MaxSize
                  /\ sessions' = sessions
                  /\ stats'.active_sessions = stats.active_sessions]_vars
    /\ [][\A c \in Callers :
              (cpc[c] # "creating" /\ cpc'[c] = "creating") =>
                  /\ total_created' = total_created
                  /\ sessions' = sessions
                  /\ stats'.active_sessions = stats.active_sessions]_vars
    /\ [](\A c \in Callers : cpc[c] = "creating" => lock_holder = {c})

\* After a failed creation (a miss that left no session behind) a later
\* caller has the lock and is creating a session.
C37_Witness ==
    /\ app_pc = "serving"
    /\ total_created = 0
    /\ stats.cache_misses = 2
    /\ stats.cache_hits = 0
    /\ \E c \in Callers :
          /\ cpc[c] = "creating"
          /\ \A d \in Callers \ {c} : cpc[d] = "idle"

InitializesInFlight == {u \in Users : upc[u] = "init_wait"}

\* C38: of the coroutines that use the process-wide client at most one has an
\* initialize request under way, no initialize request is sent once one was
\* answered with a result, and once session_initialized is true the session
\* id does not change.
C38_OneInitializePerClient ==
    /\ [](Cardinality(InitializesInFlight) <= 1)
    /\ [][(session_initialized /\ sent' # sent) =>
             sent'[Len(sent')].method # "initialize"]_vars
    /\ [][session_initialized => session_id' = session_id]_vars

(***************************************************************************)
(* CacheService (cache_service.py).  The cache is a function from the keys *)
(* it holds to (value, expiry); values are positive numbers, 0 stands for  *)
(* None; time is counted in hours.                                         *)
(***************************************************************************)
\* More distinct keys than the supposed bound.
Keys == 1..(MaxEntries + 1)
Values == {1, 2}
\* The ttl argument of set(): 0 for None (a zero timedelta is falsy too).
Ttls == {0, PlanTtl}

\* A get that hands out whatever the key holds, expired or not.
CacheGet_IgnoreExpiry(c, key, t) ==
    IF key \in DOMAIN c
    THEN [ret |-> c[key].value, cache |-> c]
    ELSE [ret |-> 0, cache |-> c]

\* CacheService.get (lines 25-38) at time t: what it returns, and the cache
\* afterwards (an expired entry is deleted).
CacheGet(c, key, t) ==
    IF key \in DOMAIN c
    THEN IF t < c[key].expiry
         THEN [ret |-> c[key].value, cache |-> c]
         ELSE [ret |-> 0, cache |-> [k \in DOMAIN c \ {key} |-> c[k]]]
    ELSE [ret |-> 0, cache |-> c]

\* CacheService.set (lines 40-45) at time t: the cache afterwards.
CacheSet(c, key, value, ttl, t) ==
    [k \in DOMAIN c \cup {key} |->
        IF k = key
        THEN [value |-> value, expiry |-> t + (IF ttl # 0 THEN ttl ELSE DefaultTtl)]
        ELSE c[k]]

Flip(b) == 1 - b

\* A caller calls cache.get(key).
GetOp(key) ==
    /\ cache' = CacheGet(cache, key, cnow).cache
    /\ klog' = [op |-> "get", key |-> key, ret |-> CacheGet(cache, key, cnow).ret,
                turn |-> Flip(klog.turn)]
    /\ UNCHANGED <<cnow, last_set>>
    /\ UNCHANGED notCache

\* A caller calls cache.set(key, value, ttl).
SetOp(key, value, ttl) ==
    /\ cache' = CacheSet(cache, key, value, ttl, cnow)
    /\ last_set' = [k \in DOMAIN last_set \cup {key} |->
                       IF k = key THEN value ELSE last_set[k]]
    /\ klog' = [op |-> "set", key |-> key, ret |-> 0, turn |-> Flip(klog.turn)]
    /\ UNCHANGED cnow
    /\ UNCHANGED notCache

\* An hour passes.
Tick ==
    /\ cnow < MaxTime
    /\ cnow' = cnow + 1
    /\ UNCHANGED <<cache, last_set, klog>>
    /\ UNCHANGED notCache

CacheNext ==
    \/ \E key \in Keys : GetOp(key)
    \/ \E key \in Keys, value \in Values, ttl \in Ttls : SetOp(key, value, ttl)
    \/ Tick

CacheSpec == Init /\ [][CacheNext]_vars

\* C31: a get returns None for a key the cache lacks or whose expiry has
\* come, and the expired entry is then gone while every other entry stays;
\* for a key that is not expired it returns the value of the last set of
\* that key and leaves the cache as it was.
C31_GetNeverReturnsExpired ==
    [][(klog'.turn # klog.turn /\ klog'.op = "get") =>
          LET key == klog'.key IN
          IF key \in DOMAIN cache /\ cnow < cache[key].expiry
          THEN /\ klog'.ret = last_set[key]
               /\ klog'.ret \in Values
               /\ cache' = cache
          ELSE /\ klog'.ret = 0
               /\ key \notin DOMAIN cache'
               /\ \A k \in DOMAIN cache \ {key} :
                     k \in DOMAIN cache' /\ cache'[k] = cache[k]
               /\ DOMAIN cache' \subseteq DOMAIN cache]_vars

\* A get has just removed an expired entry and returned None, with another
\* entry still in the cache.
C31_Witness ==
    /\ klog.op = "get" /\ klog.ret = 0
    /\ klog.key \in DOMAIN last_set
    /\ klog.key \notin DOMAIN cache
    /\ cache # <<>>

\* C32: the cache never holds more than MaxEntries entries, whatever sets and
\* gets of distinct keys are made.
C32_EntriesBounded == Cardinality(DOMAIN cache) <= MaxEntries

(***************************************************************************)
(* generate and its plan cache (planner.py 918-931 and 1127-1133).  The    *)
(* agent loop between the lookup and the end of the run is reduced to the  *)
(* model calls and tool calls it makes and to the way it ends.             *)
(***************************************************************************)
\* PlanRequest values (models/plan.py 207-210); "none" is None.  The plan
\* generate makes for the i-th of them is the value i.
Requests ==
    <<[prompt |-> "p1", language |-> "none", currency |-> "none"],
      [prompt |-> "p1", language |-> "en", currency |-> "USD"],
      [prompt |-> "p1", language |-> "tr", currency |-> "none"],
      [prompt |-> "p2", language |-> "none", currency |-> "none"]>>

\* `x or default` for an optional string.
OrDefault(x, default) == IF x \in {"none", ""} THEN default ELSE x

\* A key made of the prompt alone.
GenerateKey_PromptOnly(prefix, data) == <<prefix, data.prompt>>

\* CacheService._generate_key (lines 18-23): the prefix and the md5 digest
\* of the JSON text of data with sorted keys.  The digest is taken to be
\* different for different texts, so the key is the tuple of the values.
GenerateKey(prefix, data) == <<prefix, data.currency, data.language, data.prompt>>

\* cache_key of generate (lines 921-925).
PlanKey(req) ==
    GenerateKey("plan", [prompt |-> req.prompt,
                         language |-> OrDefault(req.language, "en"),
                         currency |-> OrDefault(req.currency, "USD")])

\* How a run that missed the cache may end: the outcomes of the agent loop.
RunOutcomes ==
    {"plan", "fallback", "raised_model", "raised_parse", "raised_tool",
     "raised_enrich", "raised_validate"}

\* A generate that caches whatever plan it returns.
CachesPlan_AnyPlan(how) == how \in {"plan", "fallback"}

\* cache.set is reached (line 1131) only on the end_turn path, after
\* _json_only_guard, normalize_to_contract, the enrichment and
\* TripPlan.model_validate all returned.
CachesPlan(how) == how = "plan"

\* generate is called with the i-th request: the lookup of lines 918-931.
GenerateCall(i) ==
    /\ rpc = "idle"
    /\ LET key == PlanKey(Requests[i])
           g == CacheGet(cache, key, cnow)
       IN  /\ cache' = g.cache
           /\ klog' = [op |-> "get", key |-> key, ret |-> g.ret, turn |-> Flip(klog.turn)]
           /\ rlog' = [req |-> i, key |-> key,
                       outcome |-> IF g.ret # 0 THEN "cached" ELSE "none",
                       ret |-> g.ret, model_calls |-> 0, tool_calls |-> 0,
                       before |-> cache]
           /\ rpc' = IF g.ret # 0 THEN "done" ELSE "running"
    /\ UNCHANGED <<cnow, last_set>>
    /\ UNCHANGED notPlanCache

\* The run calls the model (line 1098).
ModelCall ==
    /\ rpc = "running"
    /\ rlog.model_calls < MaxTurns
    /\ rlog' = [rlog EXCEPT !.model_calls = @ + 1]
    /\ UNCHANGED <<rpc, cacheVars>>
    /\ UNCHANGED notPlanCache

\* The run executes a tool call the model asked for (line 1201).
ToolCall ==
    /\ rpc = "running"
    /\ rlog.model_calls >= 1
    /\ rlog.tool_calls < MaxTools
    /\ rlog' = [rlog EXCEPT !.tool_calls = @ + 1]
    /\ UNCHANGED <<rpc, cacheVars>>
    /\ UNCHANGED notPlanCache

\* The run ends: with the validated plan of an end_turn answer, which is
\* cached for two hours (lines 1127-1133), with the fallback plan (lines
\* 1213-1225), or with an exception.
RunEnds(how) ==
    /\ rpc = "running"
    /\ rlog.model_calls >= 1
    /\ IF CachesPlan(how)
       THEN /\ cache' = CacheSet(cache, rlog.key, rlog.req, PlanTtl, cnow)
            /\ last_set' = [k \in DOMAIN last_set \cup {rlog.key} |->
                               IF k = rlog.key THEN rlog.req ELSE last_set[k]]
            /\ klog' = [op |-> "set", key |-> rlog.key, ret |-> 0,
                        turn |-> Flip(klog.turn)]
       ELSE UNCHANGED <<cache, last_set, klog>>
    /\ rlog' = [rlog EXCEPT !.outcome = how,
                            !.ret = IF how \in {"plan", "fallback"} THEN rlog.req ELSE 0]
    /\ rpc' = "done"
    /\ UNCHANGED cnow
    /\ UNCHANGED notPlanCache

\* The caller has its answer; the next request may come.
RunReturns ==
    /\ rpc = "done"
    /\ rpc' = "idle"
    /\ rlog' = NoRun
    /\ UNCHANGED cacheVars
    /\ UNCHANGED notPlanCache

PlanCacheNext ==
    \/ \E i \in DOMAIN Requests : GenerateCall(i)
    \/ ModelCall
    \/ ToolCall
    \/ \E how \in RunOutcomes : RunEnds(how)
    \/ RunReturns
    \/ Tick

PlanCacheSpec == Init /\ [][PlanCacheNext]_vars

\* What generate puts into the key for a request: the prompt, the language
\* or "en", the currency or "USD" (lines 921-925).
EffectiveRequest(req) ==
    [prompt |-> req.prompt,
     language |-> OrDefault(req.language, "en"),
     currency |-> OrDefault(req.currency, "USD")]

\* The call in rlog found an unexpired entry.
CacheHit == rpc = "done" /\ rlog.outcome = "cached"

RunFailed == rpc = "done" /\ rlog.outcome \notin {"plan", "cached"}

\* C39 as stated: generate writes a plan to the cache only when the run
\* ended with an end_turn answer that parsed, normalized and validated, and
\* a run that ends with the fallback plan or with a raised error leaves the
\* cache unchanged: the cache after the run is the cache before the call.
C39_Original_FailedRunLeavesCacheUnchanged ==
    /\ (rpc = "done" /\ rlog.outcome = "plan") =>
          (rlog.key \in DOMAIN cache /\ cache[rlog.key].value = rlog.req)
    /\ RunFailed => cache = rlog.before

\* C39, amended: generate writes to the cache only when the run ended with
\* an end_turn answer that parsed, normalized and validated, and then it
\* writes that plan under the request's key for two hours; a run that ends
\* with the fallback plan or with a raised error adds no entry and changes
\* none, and the only difference it leaves is that the expired entry of its
\* own key, if there was one, was deleted by the lookup at the start.
C39_OnlyValidatedPlansCached ==
    /\ [][(rpc = "running" /\ cache' # cache) =>
            /\ rpc' = "done"
            /\ rlog'.outcome = "plan"
            /\ rlog.model_calls >= 1
            /\ DOMAIN cache' = DOMAIN cache \cup {rlog.key}
            /\ cache'[rlog.key] = [value |-> rlog.req, expiry |-> cnow + PlanTtl]
            /\ \A k \in DOMAIN cache \ {rlog.key} : cache'[k] = cache[k]]_vars
    /\ [][(rpc = "running" /\ rpc' = "done" /\ rlog'.outcome = "plan") =>
            cache'[rlog.key] = [value |-> rlog.req, expiry |-> cnow + PlanTtl]]_vars
    /\ [](RunFailed =>
            /\ DOMAIN cache \subseteq DOMAIN rlog.before
            /\ \A k \in DOMAIN cache : cache[k] = rlog.before[k]
            /\ DOMAIN rlog.before \ DOMAIN cache \subseteq {rlog.key}
            /\ \A k \in DOMAIN rlog.before \ DOMAIN cache : rlog.before[k].expiry <= cnow)

\* A run whose lookup deleted the expired entry of its key called the model
\* and a tool and then ended with the fallback plan.
C39_Witness ==
    /\ RunFailed
    /\ rlog.outcome = "fallback"
    /\ rlog.model_calls >= 1 /\ rlog.tool_calls >= 1
    /\ rlog.key \in DOMAIN rlog.before
    /\ rlog.key \notin DOMAIN cache
    /\ cache # <<>>

(***************************************************************************)
(* The tools schema cache: get_mcp_tools_schema (adapters.py 13-38) and    *)
(* the refresh endpoint (routers/plan.py 333-351).  The exchange with the  *)
(* MCP server is reduced to the answer list_tools gives.                   *)
(***************************************************************************)
\* Tool definitions in MCP format, as the server lists them.
McpFlightSearch == [name |-> "flight_search", description |-> "Search for flights", inputSchema |-> "flight_schema"]
McpHotelSearch == [name |-> "hotel_search", description |-> "Search for hotels", inputSchema |-> "hotel_schema"]

\* What a tools/list exchange can give: an exception or an error answer,
\* or the list of the server, which may change between two fetches.
FetchAnswers ==
    {[ok |-> FALSE, tools |-> <<>>],
     [ok |-> TRUE, tools |-> <<>>],
     [ok |-> TRUE, tools |-> <<McpFlightSearch>>],
     [ok |-> TRUE, tools |-> <<McpFlightSearch, McpHotelSearch>>]}

\* fetch_mcp_tools_from_server (lines 84-97): the list, or [] on failure.
FetchMcpToolsFromServer(ans) == IF ans.ok THEN ans.tools ELSE <<>>

\* convert_mcp_tool_to_anthropic (lines 100-110).
ConvertMcpToolToAnthropic(mcp_tool) ==
    [name |-> mcp_tool.name, description |-> mcp_tool.description,
     input_schema |-> mcp_tool.inputSchema]

\* The list get_mcp_tools_schema caches and returns for a fetched list
\* (lines 29-38): [] when nothing came, the converted tools otherwise.
AnthropicTools(mcp_tools) ==
    IF mcp_tools = <<>>
    THEN <<>>
    ELSE [i \in DOMAIN mcp_tools |-> ConvertMcpToolToAnthropic(mcp_tools[i])]

\* The first return since the last invalidation settles the list.
Settle(l) == IF settled.none THEN SomeTools(l) ELSE settled

\* get_mcp_tools_schema up to its first await (lines 19-27): the cached
\* list is returned if there is one, otherwise the fetch is started.
GetMcpToolsSchema(c) ==
    /\ tpc[c] = "idle"
    /\ IF ~cached_mcp_tools.none
       THEN /\ tpc' = [tpc EXCEPT ![c] = "returned"]
            /\ tlog' = [tlog EXCEPT ![c] = [later |-> ~settled.none, sent |-> FALSE,
                                            ret |-> cached_mcp_tools]]
            /\ settled' = Settle(cached_mcp_tools.list)
       ELSE /\ tpc' = [tpc EXCEPT ![c] = "fetching"]
            /\ tlog' = [tlog EXCEPT ![c] = [later |-> ~settled.none, sent |-> TRUE,
                                            ret |-> NoTools]]
            /\ UNCHANGED settled
    /\ UNCHANGED cached_mcp_tools
    /\ UNCHANGED notTools

\* The fetch of caller c is answered: the rest of get_mcp_tools_schema
\* (lines 27-38) stores the list and returns it.
FetchAnswered(c, ans) ==
    /\ tpc[c] = "fetching"
    /\ LET tools == AnthropicTools(FetchMcpToolsFromServer(ans))
       IN  /\ cached_mcp_tools' = SomeTools(tools)
           /\ tlog' = [tlog EXCEPT ![c].ret = SomeTools(tools)]
           /\ settled' = Settle(tools)
    /\ tpc' = [tpc EXCEPT ![c] = "returned"]
    /\ UNCHANGED notTools

\* The caller goes on with the list it got.
ToolsReturned(c) ==
    /\ tpc[c] = "returned"
    /\ tpc' = [tpc EXCEPT ![c] = "idle"]
    /\ tlog' = [tlog EXCEPT ![c] = NoToolsCall]
    /\ UNCHANGED <<cached_mcp_tools, settled>>
    /\ UNCHANGED notTools

\* refresh_tools_endpoint (lines 340-343): the cache is set to None and
\* get_mcp_tools_schema is called, which starts a fetch.  Calls made from
\* now on are calls after the invalidation.
RefreshToolsEndpoint(c) ==
    /\ tpc[c] = "idle"
    /\ cached_mcp_tools' = NoTools
    /\ settled' = NoTools
    /\ tpc' = [tpc EXCEPT ![c] = "fetching"]
    /\ tlog' = [d \in ToolsCallers |->
                   IF d = c THEN [later |-> FALSE, sent |-> TRUE, ret |-> NoTools]
                   ELSE [tlog[d] EXCEPT !.later = FALSE]]
    /\ UNCHANGED notTools

ToolsNext ==
    \/ \E c \in ToolsCallers : GetMcpToolsSchema(c)
    \/ \E c \in ToolsCallers, ans \in FetchAnswers : FetchAnswered(c, ans)
    \/ \E c \in ToolsCallers : ToolsReturned(c)
    \/ \E c \in ToolsCallers : RefreshToolsEndpoint(c)

ToolsSpec == Init /\ [][ToolsNext]_vars

\* C34: after get_mcp_tools_schema has returned once, every later call,
\* until the refresh endpoint invalidates the cache, returns that same list
\* (the empty one of a failed first fetch included) and sends no tools/list
\* request.
C34_LaterCallsReturnSameCachedList ==
    \A c \in ToolsCallers :
        (tpc[c] = "returned" /\ tlog[c].later) =>
            /\ ~tlog[c].sent
            /\ tlog[c].ret = settled

====
